---- MODULE Spec2Model ----
(***************************************************************************)
(* State-machine model of the JSON-RPC 2.0 dispatch engine of              *)
(* src/robotcode/jsonrpc2/protocol.py (JsonRPCProtocolBase/JsonRPCProtocol).*)
(* One action per callback that the asyncio loop runs atomically, and one  *)
(* action per statement group of send_request, which worker threads may    *)
(* execute concurrently with the loop.                                      *)
(***************************************************************************)
EXTENDS Integers, Sequences, FiniteSets, TLC

\* ---------------------------------------------------------------- bounds
MaxSend == 2          \* send_request calls explored
MaxIn == 2            \* inbound messages explored
NThreads == 2         \* thread 1 runs the protocol's loop, the others are workers
MaxFrames == 2        \* frames in the peer's byte stream
MaxChunks == 2        \* chunks in which the stream reaches data_received
MaxParts == 2         \* parts constructed by hand for the engine

\* ------------------------------------------------------- program constants
METHOD_NOT_FOUND == -32601
INVALID_PARAMS == -32602
INTERNAL_ERROR == -32603
REQUEST_CANCELLED == -32800
PARSE_ERROR == -32700
PROTOCOL_VERSION == "2.0"
AppError == -32001    \* a code in the server-defined range, carried by a JsonRPCErrorException

NoId == 0             \* None as a message id
None == "None"        \* None as a type / value

Threads == 1..NThreads
LoopThread == 1
InIds == {1, 2}                         \* ids the peer uses for its requests
ResultTypes == {"T"}                    \* return_type_or_converter of the calls made
Payloads == <<"r1", "r2", "r3", "r4">>
Payload(i) == Payloads[i]               \* what the peer answers to the request with id i
\* result payloads of a Response with id i: null, one that does not convert to "T", or the answer
Results(i) == {"null", "bad"} \cup (IF i = 0 THEN {} ELSE {Payload(i)})

VARIABLES
    write_transport,           \* TRUE iff self.write_transport is not None
    _loop,                     \* TRUE iff self._loop is not None
    methods,                   \* the engine's registry, __methods: name -> RpcMethodEntry
    _sended_request_lock,      \* 0 = free, else the thread that holds the RLock
    _sended_request,           \* id -> SendedRequestEntry
    _sended_request_count,
    futures,                   \* the futures send_request has created, in creation order
    frame,                     \* per thread: position and locals inside send_request
    scheduled,                 \* callbacks handed to a foreign loop by call_soon_threadsafe
    running,                   \* per thread: its event loop is running
    inq,                       \* handle_message tasks created and not yet started (FIFO)
    nin,                       \* inbound messages so far
    tasks,                     \* live handler tasks of received requests and notifications
    _received_request,         \* id -> ReceivedRequestEntry
    written,                   \* frames handed to write_transport.write, in order
    op,                        \* the operation that produced the current state
    _message_buf,              \* bytes received and not yet framed
    frames,                    \* the frames the peer sends, in stream order
    chunks,                    \* the chunks in which the peer's byte stream arrives
    delivered,                 \* how many of them data_received has been called with
    bodies,                    \* the calls _handle_body(body, charset) made so far
    outgoing,                  \* a message given to send_message
    wire,                      \* the JSON object send_message writes for it
    decoded,                   \* what the receiving engine decodes from that object
    sm,                        \* per thread: position and locals inside send_message
    ncalls,                    \* calls of send_message so far
    ready,                     \* the loop's queue of callbacks scheduled by call_soon_threadsafe
    transport,                 \* the bytes passed to write_transport.write, in order
    __initialized,             \* the engine's registry: its table is computed
    __class_part_instances,    \* the engine's registry: the live parts attached to it
    __rpc_part_instances__,    \* the engine: part type -> the part created for it
    _class_registries,         \* RpcRegistry._class_registries: class -> its registry
    created,                   \* part objects constructed so far
    second,                    \* a second engine of the same endpoint class: registry and parts
    returned                   \* what the last call of a registry method returned

vars == <<write_transport, _loop, methods, _sended_request_lock, _sended_request,
          _sended_request_count, futures, frame, scheduled, running, inq, nin,
          tasks, _received_request, written, op, _message_buf, frames, chunks, delivered, bodies,
          outgoing, wire, decoded, sm, ncalls, ready, transport,
          __initialized, __class_part_instances, __rpc_part_instances__, _class_registries,
          created, second, returned>>

engineVars == <<write_transport, _loop, methods, _sended_request_lock, _sended_request,
                _sended_request_count, futures, frame, scheduled, running, inq, nin,
                tasks, _received_request, written, op, sm, ncalls, ready, transport,
                __initialized, __class_part_instances, __rpc_part_instances__, _class_registries,
                created, second, returned>>
writerVars == <<sm, ncalls, ready, transport>>
registryVars == <<__initialized, __class_part_instances, __rpc_part_instances__, _class_registries,
                  created, second, returned>>
framerVars == <<_message_buf, frames, chunks, delivered, bodies>>
codecVars == <<outgoing, wire, decoded>>

sendVars == <<_sended_request_lock, _sended_request, _sended_request_count, futures, frame, scheduled>>
recvVars == <<inq, nin, tasks, _received_request>>
connVars == <<write_transport, _loop>>
\* everything but the registry and op
servingVars == <<connVars, sendVars, recvVars, running, written, writerVars, framerVars, codecVars>>

\* ---------------------------------------------------------------- messages
Msg(kind, id, method, params, result, code) ==
    [kind |-> kind, id |-> id, method |-> method, params |-> params, result |-> result, code |-> code]

JsonRPCRequest(id, method, params) == Msg("request", id, method, params, "-", 0)
JsonRPCNotification(method, params) == Msg("notification", NoId, method, params, "-", 0)
JsonRPCResponse(id, result) == Msg("response", id, "-", "-", result, 0)
JsonRPCError(id, code) == Msg("error", id, "-", "-", "-", code)

\* a handler task: st is "pending" or how it ended, result what t.result() returns once it has
\* ended with a result, must_cancel a cancellation not yet delivered, cancelling whether
\* Task.cancel() was ever called on it while it was pending
Task(kind, id, method) ==
    [kind |-> kind, id |-> id, method |-> method, st |-> "pending", result |-> "-",
     must_cancel |-> FALSE, cancelling |-> FALSE]

NoTask == Task("-", NoId, "-")

NoMessage == Msg("-", NoId, "-", "-", "-", 0)
NoJson == [jsonrpc |-> "-"]
NoReturn == [call |-> "-", raised |-> FALSE, value |-> "-"]

Op(name, id, arg) == [name |-> name, id |-> id, arg |-> arg, task |-> NoTask]

\* ---------------------------------------------------------------- registry
RpcMethodEntry(name, method, param_type, cancelable) ==
    [name |-> name, method |-> method, param_type |-> param_type, cancelable |-> cancelable]

\* an object: an instance of a class (serial tells instances of one class apart), a class, or
\* an item (name, class_type) of a dict of class parts
Object(kind, class, serial) == [kind |-> kind, class |-> class, serial |-> serial]

\* a callable: the function func bound to self
Method(self, func) == [self |-> self, func |-> func]

NoObject == Object("-", "-", 0)

NoEntry == RpcMethodEntry(None, Method(NoObject, None), None, FALSE)   \* get_entry's None

Endpoint == Object("instance", "Server", 0)       \* the engine, an instance of the endpoint class
OtherEndpoint == Object("instance", "Server", 1)  \* the second engine
\* the second engine with nothing resolved, attached or created yet
NoEngine == [methods |-> <<>>, initialized |-> FALSE, class_part_instances |-> {},
             rpc_part_instances |-> <<>>]
EndpointClass == Object("class", "Server", 0)
PartTypes == {"A", "B"}
Part(type, serial) == Object("instance", type, serial)
Item(name, type) == Object("tuple", type, 0)

\* the methods decorated with rpc_method in each class: name -> <<param_type, cancelable>>
Declared(class) ==
    CASE class = "Server" -> [ping |-> <<"T", TRUE>>, nc |-> <<None, FALSE>>]
      [] class = "A" -> [a |-> <<None, TRUE>>, dup |-> <<None, TRUE>>]
      [] class = "B" -> [b |-> <<None, TRUE>>, dup |-> <<"T", FALSE>>]

\* mutant: the entries hold the plain functions, bound to no object
get_methods_unbound(obj) ==
    IF obj.kind = "tuple" THEN <<>>
    ELSE [n \in DOMAIN Declared(obj.class) |->
            RpcMethodEntry(n, Method(NoObject, n), Declared(obj.class)[n][1], Declared(obj.class)[n][2])]

\* get_methods(obj) of __ensure_initialized: an entry for each method of obj that carries
\* __rpc_method__; a tuple has none
get_methods(obj) ==
    IF obj.kind = "tuple" THEN <<>>
    ELSE [n \in DOMAIN Declared(obj.class) |->
            RpcMethodEntry(n, Method(obj, n), Declared(obj.class)[n][1], Declared(obj.class)[n][2])]

\* ---- RpcRegistry
\* dict.update(other): the entries of other replace those with the same name
update(table, other) == other @@ table

\* self.__methods.update(get_methods(obj)) for the objects of objs in turn
RECURSIVE UpdateAll(_, _)
UpdateAll(table, objs) ==
    IF objs = <<>> THEN table ELSE UpdateAll(update(table, get_methods(Head(objs))), Tail(objs))

\* the orders in which the elements of a set can be iterated
Orders(S) == {o \in [1..Cardinality(S) -> S] : \A i, j \in 1..Cardinality(S) : o[i] = o[j] => i = j}

\* a registry created by RpcRegistry.__get__ for a class
ClassRegistry == [methods |-> <<>>, initialized |-> FALSE, class_parts |-> <<>>]

\* the class parts declared on the classes of the engine, as (name, type) in dict order
ClassParts ==
    IF "Server" \in DOMAIN _class_registries THEN _class_registries["Server"].class_parts ELSE <<>>

\* getattr(self.__owner, k) for every name k of a class part: ProtocolPartDescriptor.__get__
\* creates the part of a type on first access, and the part attaches itself to the registry
RECURSIVE InstantiateParts(_, _)
InstantiateParts(items, st) ==
    IF items = <<>> THEN st
    ELSE LET type == Head(items)[2] IN
         InstantiateParts(Tail(items),
            IF type \in DOMAIN st.parts THEN st
            ELSE [parts |-> (type :> Part(type, st.created + 1)) @@ st.parts,
                  instances |-> st.instances \cup {Part(type, st.created + 1)},
                  created |-> st.created + 1])

\* mutant: the dict of part instances is kept on the class, one for all engines
PartInstances_of_class(obj) == __rpc_part_instances__

\* obj.__rpc_part_instances__: the dict ProtocolPartDescriptor.__get__ keeps on the engine
PartInstances(obj) == IF obj = Endpoint THEN __rpc_part_instances__ ELSE second.rpc_part_instances

\* the parts of the engine once __ensure_initialized has gone through the class parts
Parts ==
    IF __initialized
    THEN [parts |-> __rpc_part_instances__, instances |-> __class_part_instances, created |-> created]
    ELSE InstantiateParts(ClassParts, [parts |-> PartInstances(Endpoint),
                                       instances |-> __class_part_instances, created |-> created])

\* the same for the second engine
OtherParts ==
    IF second.initialized
    THEN [parts |-> second.rpc_part_instances, instances |-> second.class_part_instances,
          created |-> created]
    ELSE InstantiateParts(ClassParts, [parts |-> PartInstances(OtherEndpoint),
                                       instances |-> second.class_part_instances,
                                       created |-> created])

\* the tables __ensure_initialized can leave in the engine's registry: the cached one, or the
\* methods of the owner updated with those of the parts in the order the WeakSet yields them
Tables ==
    IF __initialized THEN {methods}
    ELSE {UpdateAll(get_methods(Endpoint), o) : o \in Orders(Parts.instances)}

\* the table __ensure_initialized leaves in the registry of a class
ClassTable(r) ==
    IF r.initialized THEN r.methods
    ELSE UpdateAll(get_methods(EndpointClass),
                   [i \in DOMAIN r.class_parts |-> Item(r.class_parts[i][1], r.class_parts[i][2])])

\* __ensure_initialized of the engine's registry, leaving table as self.__methods
Ensure(table) ==
    /\ methods' = table
    /\ __initialized' = TRUE
    /\ __class_part_instances' = Parts.instances
    /\ __rpc_part_instances__' = Parts.parts
    /\ created' = Parts.created

Returned(call, value) == [call |-> call, raised |-> FALSE, value |-> value]

\* what get_entry, get_method and get_param_type return for the entry found (None if none)
Result(call, e) ==
    CASE call = "get_entry" -> Returned(call, e)
      [] call = "get_method" -> Returned(call, IF e = NoEntry THEN Method(NoObject, None) ELSE e.method)
      [] call = "get_param_type" -> Returned(call, IF e = NoEntry THEN None ELSE e.param_type)

\* self.registry.get_entry(name), get_method(name), get_param_type(name)
lookup(call, name) ==
    /\ \E table \in Tables :
        /\ Ensure(table)
        /\ returned' = Result(call, IF name \in DOMAIN table THEN table[name] ELSE NoEntry)
    /\ op' = Op(call, NoId, name)
    /\ UNCHANGED <<servingVars, _class_registries, second>>

\* other.registry.get_entry(name): the lookup through the registry of the second engine
lookup_other(name) ==
    /\ \E table \in (IF second.initialized THEN {second.methods}
                      ELSE {UpdateAll(get_methods(OtherEndpoint), o) : o \in Orders(OtherParts.instances)}) :
        /\ second' = [methods |-> table, initialized |-> TRUE,
                      class_part_instances |-> OtherParts.instances,
                      rpc_part_instances |-> OtherParts.parts]
        /\ returned' = Result("get_entry", IF name \in DOMAIN table THEN table[name] ELSE NoEntry)
    /\ created' = OtherParts.created
    /\ op' = Op("other_get_entry", NoId, name)
    /\ UNCHANGED <<servingVars, methods, __initialized, __class_part_instances, __rpc_part_instances__,
                   _class_registries>>

\* mutant: a name that is registered keeps its entry
SetItem_first(table, name, e) == IF name \in DOMAIN table THEN table ELSE (name :> e) @@ table

\* self.__methods[name] = e
SetItem(table, name, e) == (name :> e) @@ table

add_method(name, func, param_type, cancelable) ==
    /\ \E table \in Tables :
        Ensure(SetItem(table, name, RpcMethodEntry(name, func, param_type, cancelable)))
    /\ returned' = Returned("add_method", NoEntry)
    /\ op' = Op("add_method", NoId, RpcMethodEntry(name, func, param_type, cancelable))
    /\ UNCHANGED <<servingVars, _class_registries, second>>

remove_method(name) ==
    /\ \E table \in Tables :
        /\ Ensure([n \in DOMAIN table \ {name} |-> table[n]])
        /\ returned' = Returned("remove_method", IF name \in DOMAIN table THEN table[name] ELSE NoEntry)
    /\ op' = Op("remove_method", NoId, name)
    /\ UNCHANGED <<servingVars, _class_registries, second>>

\* GenericJsonRPCProtocolPart.__init__(parent): a part of this type is constructed for the
\* engine and attaches itself; add_class_part_instance resets the registry
add_class_part_instance(type) ==
    /\ created < MaxParts
    /\ created' = created + 1
    /\ methods' = <<>>
    /\ __initialized' = FALSE
    /\ __class_part_instances' = __class_part_instances \cup {Part(type, created + 1)}
    /\ returned' = Returned("add_class_part_instance", NoEntry)
    /\ op' = Op("add_class_part_instance", created + 1, type)
    /\ UNCHANGED <<servingVars, __rpc_part_instances__, _class_registries, second>>

\* the dict d after d[name] = type: a new name goes to the end, a known one keeps its place
DictSet(d, name, type) ==
    IF \E i \in DOMAIN d : d[i][1] = name
    THEN [i \in DOMAIN d |-> IF d[i][1] = name THEN <<name, type>> ELSE d[i]]
    ELSE Append(d, <<name, type>>)

\* ProtocolPartDescriptor.__set_name__(owner, name): owner.registry.add_class_part(name, type)
\* while the endpoint class is being defined, before there is an engine to use its registry
add_class_part(name, type) ==
    /\ ~__initialized /\ methods = <<>> /\ created = 0 /\ second = NoEngine
    /\ LET r == IF "Server" \in DOMAIN _class_registries THEN _class_registries["Server"] ELSE ClassRegistry IN
       _class_registries' = ("Server" :> [methods |-> <<>>, initialized |-> FALSE,
                                          class_parts |-> DictSet(r.class_parts, name, type)])
    /\ returned' = Returned("add_class_part", NoEntry)
    /\ op' = Op("add_class_part", NoId, name)
    /\ UNCHANGED <<servingVars, methods, __initialized, __class_part_instances, __rpc_part_instances__, created,
                   second>>

\* Server.registry.get_entry(name): the lookup through the registry of the endpoint class
class_lookup(name) ==
    /\ LET r == IF "Server" \in DOMAIN _class_registries THEN _class_registries["Server"] ELSE ClassRegistry
           table == ClassTable(r)
       IN
       /\ _class_registries' = ("Server" :> [r EXCEPT !.methods = table, !.initialized = TRUE])
       /\ returned' = Returned("class_get_entry", IF name \in DOMAIN table THEN table[name] ELSE NoEntry)
    /\ op' = Op("class_get_entry", NoId, name)
    /\ UNCHANGED <<servingVars, methods, __initialized, __class_part_instances, __rpc_part_instances__, created,
                   second>>

\* mutant: a name that is absent resolves to some registered entry
get_entry_any(name) ==
    IF name \in DOMAIN methods THEN methods[name] ELSE methods[CHOOSE n \in DOMAIN methods : TRUE]

get_entry(name) == IF name \in DOMAIN methods THEN methods[name] ELSE NoEntry

\* mutant: from_dict converts whatever it is given
from_dict_fails_never(value, type) == FALSE

\* from_dict(value, type): conversion succeeds unless a typed target meets a malformed value
from_dict_fails(value, type) == type # None /\ value = "bad"

\* _convert_params raises iff params is not None, a param type is declared and from_dict raises
convert_params_fails(params_type, params) ==
    /\ params # "null"
    /\ from_dict_fails(params, params_type)

\* ---------------------------------------------------------------- writer
\* send_message: the frame reaches the transport only with a transport and a loop
send_message(w, message) ==
    IF write_transport /\ _loop THEN Append(w, message) ELSE w

send_response(w, id, result) == send_message(w, JsonRPCResponse(id, result))

send_error(w, code, id) == send_message(w, JsonRPCError(id, code))

\* the loop thread runs one callback at a time: it is free when not inside send_request or
\* send_message
LoopFree == frame[LoopThread].pc = "idle" /\ sm[LoopThread].pc = "idle"

IdleFrame == [pc |-> "idle", tmp |-> 0, id |-> 0, fut |-> 0, rt |-> None]

IdleCall == [pc |-> "idle", call |-> 0, todo |-> <<>>]

\* the engine after __init__, apart from its registry
ProtocolInit ==
    /\ write_transport = FALSE
    /\ _loop = FALSE
    /\ _sended_request_lock = 0
    /\ _sended_request = <<>>
    /\ _sended_request_count = 0
    /\ futures = <<>>
    /\ frame = [th \in Threads |-> IdleFrame]
    /\ scheduled = <<>>
    /\ running = [th \in Threads |-> TRUE]
    /\ inq = <<>>
    /\ nin = 0
    /\ tasks = <<>>
    /\ _received_request = <<>>
    /\ written = <<>>
    /\ op = Op("init", NoId, "-")
    /\ sm = [th \in Threads |-> IdleCall]
    /\ ncalls = 0
    /\ ready = <<>>
    /\ transport = <<>>
    /\ second = NoEngine

\* an engine whose endpoint class declares no parts and to which none is attached, with the
\* table its registry holds from the first lookup on
EngineInit ==
    /\ ProtocolInit
    /\ methods = get_methods(Endpoint)
    /\ __initialized = TRUE
    /\ __class_part_instances = {}
    /\ __rpc_part_instances__ = <<>>
    /\ _class_registries = <<>>
    /\ created = 0
    /\ returned = NoReturn

\* the state after JsonRPCProtocol.__init__, with nothing on the wire
Init ==
    /\ EngineInit
    /\ _message_buf = <<>>
    /\ frames = <<>>
    /\ chunks = <<>>
    /\ delivered = 0
    /\ bodies = <<>>
    /\ outgoing = NoMessage
    /\ wire = NoJson
    /\ decoded = NoMessage

\* ------------------------------------------------------------ connection
connection_made ==
    /\ ~write_transport /\ ~_loop
    /\ LoopFree
    /\ write_transport' = TRUE
    /\ _loop' = TRUE
    /\ op' = Op("connection_made", NoId, "-")
    /\ UNCHANGED <<methods, sendVars, running, recvVars, written>>
    /\ UNCHANGED <<framerVars, codecVars, writerVars, registryVars>>

connection_lost ==
    /\ _loop
    /\ LoopFree
    /\ _loop' = FALSE
    /\ op' = Op("connection_lost", NoId, "-")
    /\ UNCHANGED <<write_transport, methods, sendVars, running, recvVars, written>>
    /\ UNCHANGED <<framerVars, codecVars, writerVars, registryVars>>

\* ------------------------------------------------------------ send_request
SendedRequestEntry(future, result_type) == [future |-> future, result_type |-> result_type]

Future(loop) == [state |-> "pending", value |-> "-", loop |-> loop]

\* mutant: the lock does not exclude other threads
LockIgnored(th) == TRUE

\* `with self._sended_request_lock:` can be entered when no other thread holds the lock
LockFree(th) == _sended_request_lock = 0

\* the id a call takes after `self._sended_request_count += 1; id = self._sended_request_count`
NextCount(tmp) == tmp + 1

\* with self._sended_request_lock: result = create_sub_future()
send_request_enter(th, rt) ==
    /\ frame[th].pc = "idle"
    /\ Len(futures) < MaxSend
    /\ running[th]
    /\ LockFree(th)
    /\ _sended_request_lock' = th
    /\ futures' = Append(futures, Future(th))
    /\ frame' = [frame EXCEPT ![th] = [pc |-> "load", tmp |-> 0, id |-> 0, fut |-> Len(futures) + 1, rt |-> rt]]
    /\ op' = Op("send_request_enter", NoId, "-")
    /\ UNCHANGED <<connVars, methods, _sended_request, _sended_request_count, scheduled, running,
                   recvVars, written>>
    /\ UNCHANGED <<framerVars, codecVars, writerVars, registryVars>>

\* self._sended_request_count += 1   (the read half)
send_request_load(th) ==
    /\ frame[th].pc = "load"
    /\ frame' = [frame EXCEPT ![th].pc = "store", ![th].tmp = _sended_request_count]
    /\ op' = Op("send_request_load", NoId, "-")
    /\ UNCHANGED <<connVars, methods, _sended_request_lock, _sended_request, _sended_request_count,
                   futures, scheduled, running, recvVars, written>>
    /\ UNCHANGED <<framerVars, codecVars, writerVars, registryVars>>

\* self._sended_request_count += 1   (the write half)
send_request_store(th) ==
    /\ frame[th].pc = "store"
    /\ _sended_request_count' = NextCount(frame[th].tmp)
    /\ frame' = [frame EXCEPT ![th].pc = "insert"]
    /\ op' = Op("send_request_store", NoId, "-")
    /\ UNCHANGED <<connVars, methods, _sended_request_lock, _sended_request, futures, scheduled,
                   running, recvVars, written>>
    /\ UNCHANGED <<framerVars, codecVars, writerVars, registryVars>>

\* id = self._sended_request_count; self._sended_request[id] = SendedRequestEntry(...); leave the lock
send_request_insert(th) ==
    /\ frame[th].pc = "insert"
    /\ LET id == _sended_request_count IN
        /\ _sended_request' = (id :> SendedRequestEntry(frame[th].fut, frame[th].rt)) @@ _sended_request
        /\ frame' = [frame EXCEPT ![th].pc = "send", ![th].id = id]
        /\ op' = Op("send_request_insert", id, "-")
    /\ _sended_request_lock' = IF _sended_request_lock = th THEN 0 ELSE _sended_request_lock
    /\ UNCHANGED <<connVars, methods, _sended_request_count, futures, scheduled, running,
                   recvVars, written>>
    /\ UNCHANGED <<framerVars, codecVars, writerVars, registryVars>>

\* request = JsonRPCRequest(id, method, params); self.send_message(request); return result
send_request_send(th) ==
    /\ frame[th].pc = "send"
    /\ written' = send_message(written, JsonRPCRequest(frame[th].id, "call", "p"))
    /\ frame' = [frame EXCEPT ![th] = IdleFrame]
    /\ op' = Op("send_request", frame[th].id, "-")
    /\ UNCHANGED <<connVars, methods, _sended_request_lock, _sended_request, _sended_request_count,
                   futures, scheduled, running, recvVars>>
    /\ UNCHANGED <<framerVars, codecVars, writerVars, registryVars>>

send_request(th) ==
    \/ \E rt \in ResultTypes : send_request_enter(th, rt)
    \/ send_request_load(th)
    \/ send_request_store(th)
    \/ send_request_insert(th)
    \/ send_request_send(th)

\* the Notifications handed to the writer so far
Notified == Cardinality({k \in DOMAIN written : written[k].kind = "notification"})

\* mutant: the notification takes an id from the counter of send_request
send_notification_counted ==
    /\ LoopFree
    /\ Notified < MaxSend
    /\ written' = send_message(written, JsonRPCNotification("event", "p"))
    /\ _sended_request_count' = NextCount(_sended_request_count)
    /\ op' = Op("send_notification", NoId, "event")
    /\ UNCHANGED <<connVars, methods, _sended_request_lock, _sended_request, frame, futures,
                   scheduled, running, recvVars>>
    /\ UNCHANGED <<framerVars, codecVars, writerVars, registryVars>>

\* self.send_message(JsonRPCNotification(method=method, params=params))
send_notification ==
    /\ LoopFree
    /\ Notified < MaxSend
    /\ written' = send_message(written, JsonRPCNotification("event", "p"))
    /\ op' = Op("send_notification", NoId, "event")
    /\ UNCHANGED <<connVars, methods, sendVars, running, recvVars>>
    /\ UNCHANGED <<framerVars, codecVars, writerVars, registryVars>>

\* ------------------------------------------------------------- inbound loop
Without(f, k) == [x \in DOMAIN f \ {k} |-> f[x]]

Value(type, v) == [type |-> type, v |-> v]

\* from_dict(value, type) when it succeeds: the payload as an instance of the declared type
from_dict(v, type) == Value(type, v)

InRequests == {JsonRPCRequest(i, m[1], m[2]) :
                 i \in InIds, m \in {<<"ping", "ok">>, <<"ping", "bad">>, <<"nc", "ok">>, <<"unknown", "ok">>}}
InNotifications == {JsonRPCNotification(m[1], m[2]) :
                      m \in {<<"ping", "ok">>, <<"ping", "bad">>, <<"unknown", "ok">>}}
InResponses == UNION {{JsonRPCResponse(i, r) : r \in Results(i)} : i \in 0..MaxSend}
InErrors == {JsonRPCError(i, AppError) : i \in 0..MaxSend}

\* data_received -> _handle_body -> _handle_messages: one task per decoded message
_handle_messages(m) ==
    /\ _loop
    /\ LoopFree
    /\ nin < MaxIn
    /\ inq' = Append(inq, m)
    /\ nin' = nin + 1
    /\ op' = Op("_handle_messages", m.id, m.kind)
    /\ UNCHANGED <<connVars, methods, sendVars, running, tasks, _received_request, written>>
    /\ UNCHANGED <<framerVars, codecVars, writerVars, registryVars>>

ReceivedRequestEntry(future, cancelable) == [future |-> future, cancelable |-> cancelable]

\* the task object create_sub_task returns: a name no live task has
NewTask == CHOOSE t \in 1..(Cardinality(DOMAIN tasks) + 1) :
              t \notin DOMAIN tasks /\ \A u \in 1..(t - 1) : u \in DOMAIN tasks

\* handle_request up to `await task`
handle_request(message) ==
    LET e == get_entry(message.method) IN
    /\ inq' = Tail(inq)
    /\ IF e = NoEntry
       THEN /\ written' = send_error(written, METHOD_NOT_FOUND, message.id)
            /\ op' = Op("handle_request", message.id, "method_not_found")
            /\ UNCHANGED <<tasks, _received_request>>
       ELSE IF convert_params_fails(e.param_type, message.params)
       THEN \* the exception leaves handle_request; the task of handle_message ends with it
            /\ op' = Op("handle_request", message.id, "convert_failed")
            /\ UNCHANGED <<tasks, _received_request, written>>
       ELSE /\ tasks' = (NewTask :> Task("request", message.id, message.method)) @@ tasks
            /\ _received_request' =
                   (message.id :> ReceivedRequestEntry(NewTask, e.cancelable)) @@ _received_request
            /\ op' = Op("handle_request", message.id, "started")
            /\ UNCHANGED written
    /\ UNCHANGED <<connVars, methods, sendVars, running, nin>>
    /\ UNCHANGED <<framerVars, codecVars, writerVars, registryVars>>

\* mutant: an unknown method is reported to the peer, as handle_request does
handle_notification_replies(message) ==
    LET e == get_entry(message.method) IN
    /\ inq' = Tail(inq)
    /\ IF e = NoEntry
       THEN /\ written' = send_error(written, METHOD_NOT_FOUND, NoId)
            /\ op' = Op("handle_notification", NoId, "method_not_found")
            /\ UNCHANGED tasks
       ELSE IF convert_params_fails(e.param_type, message.params)
       THEN /\ op' = Op("handle_notification", NoId, "convert_failed")
            /\ UNCHANGED <<tasks, written>>
       ELSE /\ tasks' = (NewTask :> Task("notification", NoId, message.method)) @@ tasks
            /\ op' = Op("handle_notification", NoId, "started")
            /\ UNCHANGED written
    /\ UNCHANGED <<connVars, methods, sendVars, running, nin, _received_request>>
    /\ UNCHANGED <<framerVars, codecVars, writerVars, registryVars>>

\* handle_notification up to `await task`
handle_notification(message) ==
    LET e == get_entry(message.method) IN
    /\ inq' = Tail(inq)
    /\ IF e = NoEntry
       THEN /\ op' = Op("handle_notification", NoId, "method_not_found")
            /\ UNCHANGED tasks
       ELSE IF convert_params_fails(e.param_type, message.params)
       THEN /\ op' = Op("handle_notification", NoId, "convert_failed")
            /\ UNCHANGED tasks
       ELSE /\ tasks' = (NewTask :> Task("notification", NoId, message.method)) @@ tasks
            /\ op' = Op("handle_notification", NoId, "started")
    /\ UNCHANGED <<connVars, methods, sendVars, running, nin, _received_request, written>>
    /\ UNCHANGED <<framerVars, codecVars, writerVars, registryVars>>

\* mutant: the result goes to the handle next to the one of the entry
ResolveNeighbour(fs, h, state, value) ==
    [fs EXCEPT ![(h % Len(fs)) + 1] =
        IF @.state = "pending" THEN [@ EXCEPT !.state = state, !.value = value] ELSE @]

\* mutant: the outcome is set on a future that is done as well
ResolveAgain(fs, h, state, value) == [fs EXCEPT ![h] = [@ EXCEPT !.state = state, !.value = value]]

\* entry.future.set_result / set_exception on a future that is not done
Resolve(fs, h, state, value) ==
    [fs EXCEPT ![h] = IF @.state = "pending" THEN [@ EXCEPT !.state = state, !.value = value] ELSE @]

\* mutant: every handle is treated as owned by the loop that handles the Response
OnRunningLoop_always(h) == TRUE

\* entry.future._loop == asyncio.get_running_loop()
OnRunningLoop(h) == futures[h].loop = LoopThread

handle_response(message) ==
    /\ LockFree(LoopThread)
    /\ inq' = Tail(inq)
    /\ IF message.id = NoId
       THEN /\ written' = send_error(written, INTERNAL_ERROR, NoId)
            /\ op' = Op("handle_response", message.id, "null_id")
            /\ UNCHANGED <<_sended_request, futures, scheduled>>
       ELSE IF message.id \notin DOMAIN _sended_request
       THEN /\ written' = send_error(written, INTERNAL_ERROR, NoId)
            /\ op' = Op("handle_response", message.id, "unknown_id")
            /\ UNCHANGED <<_sended_request, futures, scheduled>>
       ELSE LET entry == _sended_request[message.id]
                h == entry.future
                fails == message.result # "null" /\ from_dict_fails(message.result, entry.result_type)
                res == IF message.result = "null" THEN Value(None, "null")
                       ELSE from_dict(message.result, entry.result_type)
                state == IF fails THEN "exception" ELSE "result"
                value == IF fails THEN Value("TypeError", message.result) ELSE res
            IN
            /\ _sended_request' = Without(_sended_request, message.id)
            /\ op' = Op("handle_response", message.id, message.result)
            /\ UNCHANGED written
            /\ IF futures[h].state # "pending"
               THEN UNCHANGED <<futures, scheduled>>
               ELSE IF OnRunningLoop(h)
               THEN /\ futures' = Resolve(futures, h, state, value)
                    /\ UNCHANGED scheduled
               ELSE IF fails \/ running[futures[h].loop]
               THEN /\ scheduled' = Append(scheduled, [fut |-> h, state |-> state, value |-> value])
                    /\ UNCHANGED futures
               ELSE \* "Response loop is not running."
                    UNCHANGED <<futures, scheduled>>
    /\ UNCHANGED <<connVars, methods, _sended_request_lock, _sended_request_count, frame, running,
                   nin, tasks, _received_request>>
    /\ UNCHANGED <<framerVars, codecVars, writerVars, registryVars>>

\* handle_error only raises JsonRPCErrorException out of the task of handle_message
handle_error(message) ==
    /\ inq' = Tail(inq)
    /\ op' = Op("handle_error", message.id, "raised")
    /\ UNCHANGED <<connVars, methods, sendVars, running, nin, tasks, _received_request, written>>
    /\ UNCHANGED <<framerVars, codecVars, writerVars, registryVars>>

\* mutant: a message is handled only when no handler is running
DispatchSerial(kind) == LoopFree /\ inq # <<>> /\ Head(inq).kind = kind /\ tasks = <<>>

\* handle_message: the first step of the oldest task created by _handle_messages
Dispatch(kind) == LoopFree /\ inq # <<>> /\ Head(inq).kind = kind

handle_message_request == Dispatch("request") /\ handle_request(Head(inq))

handle_message_notification == Dispatch("notification") /\ handle_notification(Head(inq))

handle_message_error == Dispatch("error") /\ handle_error(Head(inq))

handle_message_response == Dispatch("response") /\ handle_response(Head(inq))

\* ------------------------------------------------------------ handler tasks
Pending(t) == tasks[t].st = "pending"

\* a handler task that ends: a request's task stays until its done callback has run; the task
\* of a notification is awaited by handle_notification only, which logs or passes
Finish(t, st) ==
    IF tasks[t].kind = "request"
    THEN [tasks EXCEPT ![t].st = st, ![t].must_cancel = FALSE]
    ELSE Without(tasks, t)

\* the handler coroutine returns the value v
handler_returns_value(t, v) ==
    /\ LoopFree
    /\ Pending(t) /\ ~tasks[t].must_cancel
    /\ tasks' = IF tasks[t].kind = "request"
                THEN [Finish(t, "result") EXCEPT ![t].result = v]
                ELSE Finish(t, "result")
    /\ op' = Op("handler_returns", tasks[t].id, "-")
    /\ UNCHANGED <<connVars, methods, sendVars, running, inq, nin, _received_request, written>>
    /\ UNCHANGED <<framerVars, codecVars, writerVars, registryVars>>

\* the handlers registered in Init return "pong"
handler_returns(t) == handler_returns_value(t, "pong")

\* the handler coroutine raises: a JsonRPCErrorException ("rpc_error") or any other exception
handler_raises(t, ex) ==
    /\ LoopFree
    /\ Pending(t) /\ ~tasks[t].must_cancel
    /\ tasks' = Finish(t, ex)
    /\ op' = Op("handler_raises", tasks[t].id, ex)
    /\ UNCHANGED <<connVars, methods, sendVars, running, inq, nin, _received_request, written>>
    /\ UNCHANGED <<framerVars, codecVars, writerVars, registryVars>>

\* CancelledError is thrown into the coroutine and leaves it: the task ends cancelled
handler_cancelled(t) ==
    /\ LoopFree
    /\ Pending(t) /\ tasks[t].must_cancel
    /\ tasks' = Finish(t, "cancelled")
    /\ op' = Op("handler_cancelled", tasks[t].id, "-")
    /\ UNCHANGED <<connVars, methods, sendVars, running, inq, nin, _received_request, written>>
    /\ UNCHANGED <<framerVars, codecVars, writerVars, registryVars>>

\* CancelledError is thrown into the coroutine, which catches it and goes on
handler_intercepts(t) ==
    /\ LoopFree
    /\ Pending(t) /\ tasks[t].must_cancel
    /\ tasks' = [tasks EXCEPT ![t].must_cancel = FALSE]
    /\ op' = Op("handler_intercepts", tasks[t].id, "-")
    /\ UNCHANGED <<connVars, methods, sendVars, running, inq, nin, _received_request, written>>
    /\ UNCHANGED <<framerVars, codecVars, writerVars, registryVars>>

\* the task of a notification is cancelled from outside while handle_notification awaits it:
\* `except asyncio.CancelledError: pass`
notification_cancelled(t) ==
    /\ LoopFree
    /\ Pending(t) /\ tasks[t].kind = "notification"
    /\ tasks' = Finish(t, "cancelled")
    /\ op' = Op("notification_cancelled", NoId, "-")
    /\ UNCHANGED <<connVars, methods, sendVars, running, inq, nin, _received_request, written>>
    /\ UNCHANGED <<framerVars, codecVars, writerVars, registryVars>>

\* mutant: CancelledError falls through to the handler of BaseException
ReplyNoCancelBranch(w, task) ==
    CASE task.st = "result" -> send_response(w, task.id, task.result)
      [] task.st = "rpc_error" -> send_error(w, AppError, task.id)
      [] OTHER -> send_error(w, INTERNAL_ERROR, task.id)

\* mutant: a JsonRPCErrorException is reported like any other exception
ReplyNoRpcErrorBranch(w, task) ==
    CASE task.st = "result" -> send_response(w, task.id, task.result)
      [] task.st = "cancelled" -> send_error(w, REQUEST_CANCELLED, task.id)
      [] OTHER -> send_error(w, INTERNAL_ERROR, task.id)

\* what done(t) of handle_request writes for the outcome of the task
Reply(w, task) ==
    CASE task.st = "result" -> send_response(w, task.id, task.result)
      [] task.st = "cancelled" -> send_error(w, REQUEST_CANCELLED, task.id)
      [] task.st = "rpc_error" -> send_error(w, AppError, task.id)
      [] OTHER -> send_error(w, INTERNAL_ERROR, task.id)

\* mutant: done(t) has no finally clause
pop_skipped(table, id) == table

\* finally: self._received_request.pop(message.id, None)
pop(table, id) == Without(table, id)

\* done(t): the done callback handle_request added to the handler task
request_done(t) ==
    /\ LoopFree
    /\ ~Pending(t)
    /\ written' = Reply(written, tasks[t])
    /\ _received_request' = pop(_received_request, tasks[t].id)
    /\ tasks' = Without(tasks, t)
    /\ op' = [Op("done", tasks[t].id, tasks[t].st) EXCEPT !.task = tasks[t]]
    /\ UNCHANGED <<connVars, methods, sendVars, running, inq, nin>>
    /\ UNCHANGED <<framerVars, codecVars, writerVars, registryVars>>

\* mutant: cancel() does not request anything
TaskCancelIgnored(task) == task

\* mutant: cancel() marks a task that is already done
TaskCancelAlways(task) == [task EXCEPT !.must_cancel = TRUE, !.cancelling = TRUE]

\* asyncio's Task.cancel(): a request to cancel, without effect on a task that is done
TaskCancel(task) ==
    IF task.st = "pending" THEN [task EXCEPT !.must_cancel = TRUE, !.cancelling = TRUE] ELSE task

\* the test cancel_request makes before entry.future.cancel()
CancelRequestApplies(id) ==
    /\ id \in DOMAIN _received_request
    /\ tasks[_received_request[id].future].st # "cancelled"

cancel_request(id) ==
    /\ LoopFree
    /\ tasks' = IF CancelRequestApplies(id)
                THEN [tasks EXCEPT ![_received_request[id].future] = TaskCancel(@)]
                ELSE tasks
    /\ op' = Op("cancel_request", id, "-")
    /\ UNCHANGED <<connVars, methods, sendVars, running, inq, nin, _received_request, written>>
    /\ UNCHANGED <<framerVars, codecVars, writerVars, registryVars>>

\* mutant: every entry is cancelled, cancelable or not
CancelAllApplies_any(entry) == tasks[entry.future].st # "cancelled"

\* the test cancel_all_received_request makes for each entry
CancelAllApplies(entry) == entry.cancelable /\ tasks[entry.future].st # "cancelled"

cancel_all_received_request ==
    /\ LoopFree
    /\ tasks' = [t \in DOMAIN tasks |->
                   IF \E id \in DOMAIN _received_request :
                         _received_request[id].future = t /\ CancelAllApplies(_received_request[id])
                   THEN TaskCancel(tasks[t]) ELSE tasks[t]]
    /\ op' = Op("cancel_all_received_request", NoId, "-")
    /\ UNCHANGED <<connVars, methods, sendVars, running, inq, nin, _received_request, written>>
    /\ UNCHANGED <<framerVars, codecVars, writerVars, registryVars>>

\* ------------------------------------------------- owners of pending handles
\* the awaiter of a handle returned by send_request cancels it
cancel_handle(h) ==
    /\ futures[h].state = "pending"
    /\ \A th \in Threads : frame[th].fut # h
    /\ futures' = [futures EXCEPT ![h].state = "cancelled"]
    /\ op' = Op("cancel_handle", h, "-")
    /\ UNCHANGED <<connVars, methods, _sended_request_lock, _sended_request, _sended_request_count,
                   frame, scheduled, running, recvVars, written>>
    /\ UNCHANGED <<framerVars, codecVars, writerVars, registryVars>>

\* a worker thread's loop runs the oldest callback that handle_response handed to it
foreign_callback(k) ==
    /\ running[futures[scheduled[k].fut].loop]
    /\ \A j \in 1..(k - 1) : futures[scheduled[j].fut].loop # futures[scheduled[k].fut].loop
    /\ futures' = Resolve(futures, scheduled[k].fut, scheduled[k].state, scheduled[k].value)
    /\ scheduled' = SubSeq(scheduled, 1, k - 1) \o SubSeq(scheduled, k + 1, Len(scheduled))
    /\ op' = Op("foreign_callback", scheduled[k].fut, scheduled[k].state)
    /\ UNCHANGED <<connVars, methods, _sended_request_lock, _sended_request, _sended_request_count,
                   frame, running, recvVars, written>>
    /\ UNCHANGED <<framerVars, codecVars, writerVars, registryVars>>

\* a worker thread stops its loop
loop_stops(th) ==
    /\ th # LoopThread
    /\ running[th]
    /\ frame[th].pc = "idle"
    /\ running' = [running EXCEPT ![th] = FALSE]
    /\ op' = Op("loop_stops", th, "-")
    /\ UNCHANGED <<connVars, methods, sendVars, recvVars, written>>
    /\ UNCHANGED <<framerVars, codecVars, writerVars, registryVars>>

\* ------------------------------------------------------------------ framer
\* Bytes are symbols: "C" "L" spell `Content-Length:`, " " the optional blank, "1".."3" digits,
\* "CR" "LF" the line end, "T" spells `Content-Type: application/vscode-jsonrpc`, ";" spells
\* `; charset=`, "c" a charset name, and "a" any byte that is none of these.
CRLF == <<"CR", "LF">>
Digits == <<"1", "2", "3">>
CHARSET == <<"utf-8">>

Min(S) == CHOOSE x \in S : \A y \in S : x <= y
Max(S) == CHOOSE x \in S : \A y \in S : x >= y

IsDigit(b) == \E d \in DOMAIN Digits : Digits[d] = b
DigitValue(b) == CHOOSE d \in DOMAIN Digits : Digits[d] = b

\* int(found.group("length"))
RECURSIVE int(_)
int(ds) == IF ds = <<>> THEN 0 ELSE 10 * int(SubSeq(ds, 1, Len(ds) - 1)) + DigitValue(ds[Len(ds)])

\* `[^\r\n]*\r\n` (or `[^\r\n]+\r\n` when nonempty) matched at p: the position after it, 0 if none
LineEnd(buf, p, nonempty) ==
    LET stops == {i \in p..Len(buf) : buf[i] \in {"CR", "LF"}} IN
    IF stops = {} THEN 0
    ELSE LET q == Min(stops) IN
         IF (nonempty => q > p) /\ q + 1 <= Len(buf) /\ buf[q] = "CR" /\ buf[q + 1] = "LF"
         THEN q + 2 ELSE 0

\* the positions `(?:[^\r\n]*\r\n)*` can reach from p
RECURSIVE LineStarts(_, _)
LineStarts(buf, p) ==
    {p} \cup (IF LineEnd(buf, p, FALSE) = 0 THEN {} ELSE LineStarts(buf, LineEnd(buf, p, FALSE)))

\* group "charset" of a header line `Content-Type: ?[^\r\n;]+(; *(charset=([^\r\n]+))?)?`
CharsetOf(line) ==
    LET semi == {i \in DOMAIN line : line[i] = ";"} IN
    IF line # <<>> /\ line[1] = "T" /\ semi # {} /\ Min(semi) < Len(line)
    THEN SubSeq(line, Min(semi) + 1, Len(line)) ELSE <<>>

\* the header lines after Content-Length, taken greedily: where they end, and the last charset
RECURSIVE HeaderLines(_, _, _)
HeaderLines(buf, p, charset) ==
    LET e == LineEnd(buf, p, TRUE) IN
    IF e = 0 THEN [pos |-> p, charset |-> charset]
    ELSE LET cs == CharsetOf(SubSeq(buf, p, e - 3)) IN
         HeaderLines(buf, e, IF cs # <<>> THEN cs ELSE charset)

NoMatch == [found |-> FALSE, length |-> 1, charset |-> <<>>, body |-> <<>>]

\* `Content-Length: ?(\d+)\r\n`, the other header lines, `\r\n` and the body, matched at p
HeaderAt(buf, p) ==
    IF ~(p + 1 <= Len(buf) /\ buf[p] = "C" /\ buf[p + 1] = "L") THEN NoMatch
    ELSE LET d == IF p + 2 <= Len(buf) /\ buf[p + 2] = " " THEN p + 3 ELSE p + 2
             rest == {i \in d..Len(buf) : ~IsDigit(buf[i])}
             e == IF rest = {} THEN Len(buf) + 1 ELSE Min(rest)
         IN
         IF ~(e > d /\ e + 1 <= Len(buf) /\ buf[e] = "CR" /\ buf[e + 1] = "LF") THEN NoMatch
         ELSE LET h == HeaderLines(buf, e + 2, <<>>)
                  q == h.pos
              IN
              IF ~(q + 1 <= Len(buf) /\ buf[q] = "CR" /\ buf[q + 1] = "LF") THEN NoMatch
              ELSE [found |-> TRUE, length |-> int(SubSeq(buf, d, e - 1)),
                    charset |-> h.charset, body |-> SubSeq(buf, q + 2, Len(buf))]

\* MESSAGE_PATTERN.match(buf): the leading `(?:[^\r\n]*\r\n)*` is greedy, so of the line starts
\* at which the rest of the pattern matches the last one is taken
MESSAGE_PATTERN(buf) ==
    LET starts == {p \in LineStarts(buf, 1) : HeaderAt(buf, p).found} IN
    IF starts = {} THEN NoMatch ELSE HeaderAt(buf, Max(starts))

\* mutant: the bytes buffered by earlier calls are forgotten
AppendChunkOnly(buf, data) == data

\* self._message_buf += data
AppendChunk(buf, data) == buf \o data

\* the while loop of data_received: the buffer it leaves and the calls of _handle_body it makes
RECURSIVE Receive(_, _, _)
Receive(buf, data, out) ==
    IF data = <<>> THEN [buf |-> buf, out |-> out]
    ELSE LET b == AppendChunk(buf, data)
             found == MESSAGE_PATTERN(b)
             body == found.body
             length == found.length
             charset == IF found.found /\ found.charset # <<>> THEN found.charset ELSE CHARSET
         IN
         IF Len(body) < length THEN [buf |-> b, out |-> out]
         ELSE Receive(<<>>, SubSeq(body, length + 1, Len(body)),
                      Append(out, [body |-> SubSeq(body, 1, length), charset |-> charset]))

\* the transport delivers the next chunk
data_received ==
    /\ delivered < Len(chunks)
    /\ LET r == Receive(_message_buf, chunks[delivered + 1], bodies) IN
        /\ _message_buf' = r.buf
        /\ bodies' = r.out
    /\ delivered' = delivered + 1
    /\ UNCHANGED <<frames, chunks, engineVars, codecVars>>

\* ---- the peer's stream
ContentLength(n, blank) == <<"C", "L">> \o (IF blank THEN <<" ">> ELSE <<>>) \o <<Digits[n]>> \o CRLF

ContentType(kind) ==
    CASE kind = "none" -> <<>>
      [] kind = "plain" -> <<"T">> \o CRLF
      [] kind = "charset" -> <<"T", ";", "c">> \o CRLF

\* a frame as send_message builds it (Content-Length first, Content-Type optional)
Frame(blank, kind, body) ==
    [bytes |-> ContentLength(Len(body), blank) \o ContentType(kind) \o CRLF \o body,
     body |-> body,
     charset |-> IF kind = "charset" THEN <<"c">> ELSE CHARSET,
     valid |-> TRUE]

\* input with a header block that has no Content-Length, or one whose length is not a number
Malformed(kind, body) ==
    [bytes |-> (IF kind = "missing" THEN <<"T">> ELSE <<"C", "L", " ", "a">>) \o CRLF \o CRLF \o body,
     body |-> body, charset |-> CHARSET, valid |-> FALSE]

\* a body without a line end, and one that ends with a line end
Bodies == {<<"a">>, <<"a", "CR", "LF">>}

ValidFrames ==
    {Frame(h[1], h[2], b) : h \in {<<TRUE, "none">>, <<FALSE, "plain">>, <<TRUE, "charset">>}, b \in Bodies}

MalformedFrames == {Malformed(k, <<"a">>) : k \in {"missing", "length"}}

Streams == UNION {[1..n -> ValidFrames \cup MalformedFrames] : n \in 1..MaxFrames}

RECURSIVE Concat(_)
Concat(fs) == IF fs = <<>> THEN <<>> ELSE fs[1].bytes \o Concat(Tail(fs))

\* the ways to cut a stream of n bytes into MaxChunks chunks (some may be empty)
Cuts(n) == {c \in [1..(MaxChunks - 1) -> 0..n] : \A i \in 1..(MaxChunks - 2) : c[i] <= c[i + 1]}

Chunked(bytes, c) ==
    [k \in 1..MaxChunks |->
        SubSeq(bytes, (IF k = 1 THEN 0 ELSE c[k - 1]) + 1, IF k = MaxChunks THEN Len(bytes) ELSE c[k])]

InitFramer ==
    /\ EngineInit
    /\ _message_buf = <<>>
    /\ delivered = 0
    /\ bodies = <<>>
    /\ outgoing = NoMessage /\ wire = NoJson /\ decoded = NoMessage
    /\ \E fs \in Streams :
        /\ frames = fs
        /\ \E c \in Cuts(Len(Concat(fs))) : chunks = Chunked(Concat(fs), c)

\* the framer fed with a stream of frames in chunks
NextFramer == data_received

SpecFramer == InitFramer /\ [][NextFramer]_vars

\* ------------------------------------------------------------------- codec
\* A JSON object is a record of the keys present in it; null is "null" (NoId for an id).
\* Raise(e): the exception e, in the place of a message
Raise(e) == Msg(e, NoId, "-", "-", "-", 0)

\* as_json(message): the fields of the message's dataclass; a field that has a default
\* (params, data) is left out when it holds the default None
as_json(m) ==
    CASE m.kind = "request" ->
            [id |-> m.id, method |-> m.method] @@ (IF m.params = "null" THEN <<>> ELSE [params |-> m.params])
      [] m.kind = "notification" ->
            [method |-> m.method] @@ (IF m.params = "null" THEN <<>> ELSE [params |-> m.params])
      [] m.kind = "response" -> [id |-> m.id, result |-> m.result]
      [] m.kind = "error" -> [id |-> m.id, error |-> [code |-> m.code, message |-> "message"]]

\* the body send_message encodes: message.jsonrpc = PROTOCOL_VERSION; as_json(message)
Body(m) == [jsonrpc |-> PROTOCOL_VERSION] @@ as_json(m)

\* from_dict(d, (JsonRPCRequest, JsonRPCResponse, JsonRPCNotification, JsonRPCError)):
\* the kind is told by the keys present
from_dict_message(d) ==
    LET params == IF "params" \in DOMAIN d THEN d.params ELSE "null" IN
    IF "method" \in DOMAIN d /\ "result" \notin DOMAIN d /\ "error" \notin DOMAIN d
    THEN IF "id" \in DOMAIN d THEN JsonRPCRequest(d.id, d.method, params)
         ELSE JsonRPCNotification(d.method, params)
    ELSE IF "id" \in DOMAIN d /\ "result" \in DOMAIN d THEN JsonRPCResponse(d.id, d.result)
    ELSE IF "id" \in DOMAIN d /\ "error" \in DOMAIN d THEN JsonRPCError(d.id, d.error.code)
    ELSE Raise("TypeError")

\* mutant: the version is not tested
inner_unchecked(d) ==
    IF "jsonrpc" \in DOMAIN d
    THEN from_dict_message(Without(d, "jsonrpc"))
    ELSE Raise("JsonRPCException")

\* mutant: the version test is inverted
inner_inverted(d) ==
    IF "jsonrpc" \in DOMAIN d
    THEN IF d.jsonrpc = PROTOCOL_VERSION
         THEN Raise("InvalidProtocolVersionError")
         ELSE from_dict_message(Without(d, "jsonrpc"))
    ELSE Raise("JsonRPCException")

\* inner(d) of _generate_json_rpc_messages_from_dict
inner(d) ==
    IF "jsonrpc" \in DOMAIN d
    THEN IF d.jsonrpc # PROTOCOL_VERSION
         THEN Raise("InvalidProtocolVersionError")
         ELSE from_dict_message(Without(d, "jsonrpc"))
    ELSE Raise("JsonRPCException")

\* the messages of each kind, with and without params, with a null result, with a null id
Messages ==
    {JsonRPCRequest(i, m, p) : i \in {NoId, 1, 2}, m \in {"ping", "nc"}, p \in {"null", "ok", "bad"}}
    \cup {JsonRPCNotification(m, p) : m \in {"ping", "nc"}, p \in {"null", "ok", "bad"}}
    \cup {JsonRPCResponse(i, r) : i \in {NoId, 1, 2}, r \in {"null", "pong"}}
    \cup {JsonRPCError(i, c) : i \in {NoId, 1, 2}, c \in {AppError, INTERNAL_ERROR, REQUEST_CANCELLED}}

InitCodec ==
    /\ EngineInit
    /\ _message_buf = <<>> /\ frames = <<>> /\ chunks = <<>> /\ delivered = 0 /\ bodies = <<>>
    /\ outgoing \in Messages
    /\ wire = NoJson
    /\ decoded = NoMessage

\* send_message up to the encoded body
send_message_body ==
    /\ wire = NoJson
    /\ wire' = Body(outgoing)
    /\ UNCHANGED <<outgoing, decoded, engineVars, framerVars>>

\* the receiving engine decodes the body: json.loads and inner
body_decoded ==
    /\ wire # NoJson /\ decoded = NoMessage
    /\ decoded' = inner(wire)
    /\ UNCHANGED <<outgoing, wire, engineVars, framerVars>>

\* a message encoded by one engine and decoded by another
NextCodec == send_message_body \/ body_decoded

SpecCodec == InitCodec /\ [][NextCodec]_vars

\* ------------------------------------------------------------------ frames
\* Text is a sequence of characters, each a string; "U+00E9" is a character outside ASCII.
\* the characters of the strings the engine writes
Spell(str) ==
    CASE str = "jsonrpc" -> <<"j", "s", "o", "n", "r", "p", "c">>
      [] str = "2.0" -> <<"2", ".", "0">>
      [] str = "id" -> <<"i", "d">>
      [] str = "method" -> <<"m", "e", "t", "h", "o", "d">>
      [] str = "params" -> <<"p", "a", "r", "a", "m", "s">>
      [] str = "result" -> <<"r", "e", "s", "u", "l", "t">>
      [] str = "error" -> <<"e", "r", "r", "o", "r">>
      [] str = "code" -> <<"c", "o", "d", "e">>
      [] str = "message" -> <<"m", "e", "s", "s", "a", "g", "e">>
      [] str = "call" -> <<"c", "a", "l", "l">>
      [] str = "p" -> <<"p">>
      [] str = "pong" -> <<"p", "o", "n", "g">>
      [] str = "caf<U+00E9>" -> <<"c", "a", "f", "U+00E9">>

DecimalDigits == <<"0", "1", "2", "3", "4", "5", "6", "7", "8", "9">>

\* str(n)
RECURSIVE Decimal(_)
Decimal(n) ==
    IF n < 0 THEN <<"-">> \o Decimal(0 - n)
    ELSE IF n < 10 THEN <<DecimalDigits[n + 1]>>
    ELSE Decimal(n \div 10) \o <<DecimalDigits[(n % 10) + 1]>>

Quoted(str) == <<"\"">> \o Spell(str) \o <<"\"">>

Null == <<"n", "u", "l", "l">>

\* the text of the value stored under key k of a message's JSON object
RECURSIVE ValueText(_, _)
\* the members of object d whose keys are among ks, in that order, separated by commas
RECURSIVE Members(_, _)
Members(d, ks) ==
    IF ks = <<>> THEN <<>>
    ELSE IF Head(ks) \notin DOMAIN d THEN Members(d, Tail(ks))
    ELSE LET rest == Members(d, Tail(ks)) IN
         Quoted(Head(ks)) \o <<":">> \o ValueText(Head(ks), d[Head(ks)])
            \o (IF rest = <<>> THEN <<>> ELSE <<",">> \o rest)

ValueText(k, v) ==
    CASE k \in {"id", "code"} -> IF k = "id" /\ v = NoId THEN Null ELSE Decimal(v)
      [] k = "error" -> <<"{">> \o Members(v, <<"code", "message">>) \o <<"}">>
      [] OTHER -> IF v = "null" THEN Null ELSE Quoted(v)

\* as_json(message, compact=True): the fields in the order the dataclasses declare them
json_dumps(d) ==
    <<"{">> \o Members(d, <<"jsonrpc", "id", "method", "params", "result", "error">>) \o <<"}">>

\* str.encode("utf-8"): one byte for an ASCII character, two for U+00E9
RECURSIVE encode(_)
encode(text) ==
    IF text = <<>> THEN <<>>
    ELSE (IF Head(text) = "U+00E9" THEN <<"C3", "A9">> ELSE <<Head(text)>>) \o encode(Tail(text))

CONTENT_TYPE == "application/vscode-jsonrpc"

\* mutant: the header counts the characters of the text
msg_counts_characters(message) ==
    [header |-> [content_length |-> Len(json_dumps(Body(message))), content_type |-> CONTENT_TYPE,
                 charset |-> CHARSET[1]],
     body |-> encode(json_dumps(Body(message)))]

\* msg = header + body, the argument of write_transport.write for a message
msg(message) ==
    [header |-> [content_length |-> Len(encode(json_dumps(Body(message)))), content_type |-> CONTENT_TYPE,
                 charset |-> CHARSET[1]],
     body |-> encode(json_dumps(Body(message)))]

\* ------------------------------------------------------------ _handle_body
\* A body as json.loads sees it: text that is no JSON ("undecodable", items empty), one JSON
\* object ("object", one item) or an array of objects ("list").
JsonBody(json, items) == [json |-> json, items |-> items]

IsRaise(m) == m.kind \in {"JsonRPCException", "InvalidProtocolVersionError", "TypeError"}

\* the messages the generator yields before inner() raises (all of them if it never does)
Yielded(items) ==
    LET msgs == [i \in DOMAIN items |-> inner(items[i])]
        bad == {i \in DOMAIN items : IsRaise(msgs[i])}
    IN SubSeq(msgs, 1, IF bad = {} THEN Len(items) ELSE Min(bad) - 1)

\* body.decode, json.loads or inner() raises: the except clause of _handle_body is entered
Rejected(body) == body.json = "undecodable" \/ Len(Yielded(body.items)) < Len(body.items)

\* what a body counts for among the inbound messages explored
Size(body) == IF body.items = <<>> THEN 1 ELSE Len(body.items)

\* _handle_body: a task of handle_message for every message decoded before an exception, and
\* on an exception send_error(PARSE_ERROR); `open` is what becomes of self._loop after that
HandleBody(body, open) ==
    /\ _loop
    /\ LoopFree
    /\ nin + Size(body) <= MaxIn
    /\ nin' = nin + Size(body)
    /\ inq' = inq \o Yielded(body.items)
    /\ written' = IF Rejected(body) THEN send_error(written, PARSE_ERROR, NoId) ELSE written
    /\ _loop' = IF Rejected(body) THEN open ELSE _loop
    /\ op' = Op("_handle_body", NoId, body)
    /\ UNCHANGED <<write_transport, methods, sendVars, running, tasks, _received_request>>
    /\ UNCHANGED <<framerVars, codecVars, writerVars, registryVars>>

\* mutant: a body that cannot be decoded ends the connection
_handle_body_closes(body) == HandleBody(body, FALSE)

_handle_body(body) == HandleBody(body, _loop)

\* the peer's requests and its replies to the engine's requests
DuplexMessages ==
    {JsonRPCRequest(i, "ping", "ok") : i \in InIds} \cup {JsonRPCResponse(i, Payload(i)) : i \in 1..MaxSend}

WrongVersion(m) == [jsonrpc |-> "1.0"] @@ as_json(m)

\* what the peer may send: well-formed messages, messages with another version or none,
\* text that is no JSON, and arrays with a well-formed and a wrong-version message
DuplexBodies ==
    {JsonBody("object", <<Body(m)>>) : m \in DuplexMessages}
    \cup {JsonBody("object", <<WrongVersion(m)>>) : m \in DuplexMessages}
    \cup {JsonBody("object", <<as_json(m)>>) : m \in DuplexMessages}
    \cup {JsonBody("undecodable", <<>>)}
    \cup {JsonBody("list", <<Body(JsonRPCRequest(1, "ping", "ok")), WrongVersion(JsonRPCRequest(2, "ping", "ok"))>>),
          JsonBody("list", <<WrongVersion(JsonRPCRequest(1, "ping", "ok")), Body(JsonRPCRequest(2, "ping", "ok"))>>)}

\* ------------------------------------------------------------ send_message
\* The bytes of the frame of the k-th call of send_message: each byte names its call and whether
\* it belongs to the header or to the body.
HeaderBytes(k) == <<[call |-> k, part |-> "header"]>>
BodyBytes(k) == <<[call |-> k, part |-> "body"]>>

\* mutant: header and body are scheduled as two writes
Writes_split(k) == <<HeaderBytes(k), BodyBytes(k)>>

\* the arguments of the writes one call schedules: msg = header + body
Writes(k) == <<HeaderBytes(k) \o BodyBytes(k)>>

\* body and header are built; `if self.write_transport is not None:`
send_message_enter(th) ==
    /\ sm[th].pc = "idle"
    /\ frame[th].pc = "idle"
    /\ ncalls < MaxSend
    /\ ncalls' = ncalls + 1
    /\ sm' = [sm EXCEPT ![th] = IF write_transport
                                 THEN [pc |-> "test_loop", call |-> ncalls + 1, todo |-> <<>>]
                                 ELSE IdleCall]
    /\ op' = Op("send_message_enter", ncalls + 1, "-")
    /\ UNCHANGED <<connVars, methods, sendVars, running, recvVars, written, ready, transport>>
    /\ UNCHANGED <<framerVars, codecVars, registryVars>>

\* msg = header + body; `if self._loop:`
send_message_test_loop(th) ==
    /\ sm[th].pc = "test_loop"
    /\ sm' = [sm EXCEPT ![th] = IF _loop THEN [@ EXCEPT !.pc = "call", !.todo = Writes(sm[th].call)]
                                 ELSE IdleCall]
    /\ op' = Op("send_message_test_loop", sm[th].call, "-")
    /\ UNCHANGED <<connVars, methods, sendVars, running, recvVars, written, ncalls, ready, transport>>
    /\ UNCHANGED <<framerVars, codecVars, registryVars>>

\* self._loop.call_soon_threadsafe(self.write_transport.write, msg); self._loop is read again
\* and may be None by now, which raises AttributeError
send_message_call(th) ==
    /\ sm[th].pc = "call"
    /\ IF ~_loop
       THEN /\ sm' = [sm EXCEPT ![th] = IdleCall]
            /\ op' = Op("send_message_call", sm[th].call, "AttributeError")
            /\ UNCHANGED ready
       ELSE /\ ready' = Append(ready, Head(sm[th].todo))
            /\ sm' = [sm EXCEPT ![th] = IF Tail(@.todo) = <<>> THEN IdleCall
                                         ELSE [@ EXCEPT !.todo = Tail(sm[th].todo)]]
            /\ op' = Op("send_message_call", sm[th].call, "scheduled")
    /\ UNCHANGED <<connVars, methods, sendVars, running, recvVars, written, ncalls, transport>>
    /\ UNCHANGED <<framerVars, codecVars, registryVars>>

\* the loop runs the oldest scheduled callback: write_transport.write(msg)
write ==
    /\ LoopFree
    /\ ready # <<>>
    /\ transport' = transport \o Head(ready)
    /\ ready' = Tail(ready)
    /\ op' = Op("write", Head(ready)[1].call, "-")
    /\ UNCHANGED <<connVars, methods, sendVars, running, recvVars, written, sm, ncalls>>
    /\ UNCHANGED <<framerVars, codecVars, registryVars>>

\* the engine serving the peer's requests and notifications
Next ==
    \/ connection_made
    \/ connection_lost
    \/ \E m \in InRequests \cup InNotifications : _handle_messages(m)
    \/ handle_message_request
    \/ handle_message_notification
    \/ \E t \in DOMAIN tasks : handler_returns(t)
    \/ \E t \in DOMAIN tasks, ex \in {"rpc_error", "exception"} : handler_raises(t, ex)
    \/ \E t \in DOMAIN tasks : handler_cancelled(t)
    \/ \E t \in DOMAIN tasks : handler_intercepts(t)
    \/ \E t \in DOMAIN tasks : notification_cancelled(t)
    \/ \E t \in DOMAIN tasks : request_done(t)
    \/ \E id \in InIds : cancel_request(id)
    \/ cancel_all_received_request

Spec == Init /\ [][Next]_vars

\* the serving engine shut down: requests are cancelled by cancel_all_received_request only
NextShutdown ==
    \/ connection_made
    \/ connection_lost
    \/ \E m \in InRequests \cup InNotifications : _handle_messages(m)
    \/ handle_message_request
    \/ handle_message_notification
    \/ \E t \in DOMAIN tasks : handler_returns(t)
    \/ \E t \in DOMAIN tasks, ex \in {"rpc_error", "exception"} : handler_raises(t, ex)
    \/ \E t \in DOMAIN tasks : handler_cancelled(t)
    \/ \E t \in DOMAIN tasks : handler_intercepts(t)
    \/ \E t \in DOMAIN tasks : notification_cancelled(t)
    \/ \E t \in DOMAIN tasks : request_done(t)
    \/ cancel_all_received_request

SpecShutdown == Init /\ [][NextShutdown]_vars

\* the engine calling and notifying the peer from its loop, and the replies
NextNotify ==
    \/ connection_made
    \/ connection_lost
    \/ send_request(LoopThread)
    \/ send_notification
    \/ \E m \in InResponses : _handle_messages(m)
    \/ handle_message_response

SpecNotify == Init /\ [][NextNotify]_vars

\* the engine calling the peer: send_request from the loop and from worker threads, and the replies
NextSend ==
    \/ connection_made
    \/ connection_lost
    \/ \E th \in Threads : send_request(th)
    \/ \E m \in InResponses \cup InErrors : _handle_messages(m)
    \/ handle_message_response
    \/ handle_message_error
    \/ \E h \in DOMAIN futures : cancel_handle(h)
    \/ \E k \in DOMAIN scheduled : foreign_callback(k)
    \/ \E th \in Threads : loop_stops(th)

SpecSend == Init /\ [][NextSend]_vars

\* the serving engine with calls of its own made on the loop before the connection exists
NextStartup ==
    \/ Next
    \/ ~write_transport /\ send_request(LoopThread)

SpecStartup == Init /\ [][NextStartup]_vars

\* the engine serving requests while it has requests of its own outstanding, fed with bodies
\* as the framer hands them over
NextDuplex ==
    \/ connection_made
    \/ connection_lost
    \/ send_request(LoopThread)
    \/ \E body \in DuplexBodies : _handle_body(body)
    \/ handle_message_request
    \/ handle_message_response
    \/ \E t \in DOMAIN tasks : handler_returns(t)
    \/ \E t \in DOMAIN tasks : request_done(t)

SpecDuplex == Init /\ [][NextDuplex]_vars

\* what the registered handlers return
HandlerResults == {"pong", "caf<U+00E9>"}

\* the engine answering requests whose handlers return
NextReply ==
    \/ connection_made
    \/ connection_lost
    \/ \E m \in InRequests : _handle_messages(m)
    \/ handle_message_request
    \/ \E t \in DOMAIN tasks, v \in HandlerResults : handler_returns_value(t, v)
    \/ \E t \in DOMAIN tasks : request_done(t)

SpecReply == Init /\ [][NextReply]_vars

\* send_message called from the loop and from worker threads while the connection comes and goes
NextWriter ==
    \/ connection_made
    \/ connection_lost
    \/ \E th \in Threads : send_message_enter(th)
    \/ \E th \in Threads : send_message_test_loop(th)
    \/ \E th \in Threads : send_message_call(th)
    \/ write

SpecWriter == Init /\ [][NextWriter]_vars

\* the names looked up and registered: of the endpoint, of the parts, of both parts, dynamic
Names == {"ping", "a", "b", "dup", "x"}

\* the lookups made: get_entry for every name, the others for a static and a dynamic name
Lookups ==
    {<<"get_entry", name>> : name \in Names}
    \cup {<<call, name>> : call \in {"get_method", "get_param_type"}, name \in {"ping", "x"}}

\* the callables given to add_method
Functions == {Method(NoObject, "f"), Method(NoObject, "g")}

\* the engine right after construction: nothing has used its registry yet
InitRegistry ==
    /\ ProtocolInit
    /\ methods = <<>>
    /\ __initialized = FALSE
    /\ __class_part_instances = {}
    /\ __rpc_part_instances__ = <<>>
    /\ _class_registries = <<>>
    /\ created = 0
    /\ returned = NoReturn
    /\ _message_buf = <<>> /\ frames = <<>> /\ chunks = <<>> /\ delivered = 0 /\ bodies = <<>>
    /\ outgoing = NoMessage /\ wire = NoJson /\ decoded = NoMessage

\* the registry of an engine and of its class while parts are declared and attached
NextRegistry ==
    \/ \E l \in Lookups : lookup(l[1], l[2])
    \/ \E name \in {"x", "dup"}, func \in Functions : add_method(name, func, None, TRUE)
    \/ \E name \in {"x", "dup"} : remove_method(name)
    \/ \E type \in PartTypes : add_class_part_instance(type)
    \/ \E name \in {"pa", "pb"}, type \in PartTypes : add_class_part(name, type)
    \/ \E name \in {"ping", "a"} : class_lookup(name)

SpecRegistry == InitRegistry /\ [][NextRegistry]_vars

\* two engines of an endpoint class that declares parts: declaration, lookups through each
\* engine, and a part constructed by hand
NextParts ==
    \/ \E name \in {"pa", "pb"}, type \in PartTypes : add_class_part(name, type)
    \/ \E name \in {"a", "b", "dup"} : lookup("get_entry", name)
    \/ \E name \in {"a", "b"} : lookup_other(name)
    \/ \E type \in PartTypes : add_class_part_instance(type)

SpecParts == InitRegistry /\ [][NextParts]_vars

TypeOK ==
    /\ _sended_request_count \in 0..MaxSend
    /\ Cardinality(DOMAIN tasks) <= MaxIn

\* ================================================================ properties
Connected == write_transport /\ _loop

Last(w) == w[Len(w)]

\* the step in which handle_message starts on message m
HandleStep(m) == inq # <<>> /\ Head(inq) = m /\ inq' = Tail(inq) /\ op'.name \in
                    {"handle_request", "handle_notification", "handle_response", "handle_error"}

\* the step in which the done callback of request task t runs
DoneStep(t) == op'.name = "done" /\ t \in DOMAIN tasks /\ t \notin DOMAIN tasks'

\* the step in which cancel_request(id) is called
CancelRequestStep(id) == op'.name = "cancel_request" /\ op'.id = id

\* ---- C1 ------------------------------------------------------------------
C1_Expected(result) == IF result = "null" THEN Value(None, "null") ELSE from_dict(result, "T")

C1_Resolved ==
    \A h \in DOMAIN futures :
        /\ futures[h].state = "result" =>
              futures[h].value \in {C1_Expected("null"), C1_Expected(Payload(h))}
        /\ futures[h].state \in {"result", "exception"} => h \notin DOMAIN _sended_request

C1_ResponseStep ==
    \A m \in InResponses :
        HandleStep(m) /\ m.id \in DOMAIN _sended_request =>
            LET h == _sended_request[m.id].future IN
            /\ _sended_request' = Without(_sended_request, m.id)
            /\ \A g \in DOMAIN futures \ {h} : futures'[g] = futures[g]
            /\ futures[h].state = "pending" /\ m.result # "bad" =>
                  IF futures[h].loop = LoopThread
                  THEN futures'[h].state = "result" /\ futures'[h].value = C1_Expected(m.result)
                  ELSE running[futures[h].loop] =>
                          /\ scheduled' # <<>>
                          /\ Last(scheduled') = [fut |-> h, state |-> "result", value |-> C1_Expected(m.result)]

C1_CallbackStep ==
    \A h \in DOMAIN futures :
        op'.name = "foreign_callback" /\ op'.id = h /\ op'.arg = "result" /\ futures[h].state = "pending" =>
            futures'[h].state = "result"

\* C1: a Response for an outstanding id removes exactly that entry and resolves the handle that
\* send_request returned for that id with the result of this Response (directly for a handle of
\* the protocol's loop, through the callback handed to its running loop otherwise), whatever the
\* order in which the replies to concurrently issued requests arrive; no other handle changes,
\* and no handle is ever resolved with another request's payload or stays in the table once
\* its reply has resolved it.
C1_ResponsesResolveOwnHandle ==
    []C1_Resolved /\ [][C1_ResponseStep /\ C1_CallbackStep]_vars

\* two requests issued from two threads, the reply to the second handled before the reply to the
\* first, both handles resolved with their own payload and the table empty
C1_Witness ==
    /\ op.name = "handle_response" /\ op.id = 1
    /\ Len(futures) = 2
    /\ futures[1].loop # futures[2].loop
    /\ futures[1].state = "result" /\ futures[1].value.v = Payload(1)
    /\ futures[2].state = "result" /\ futures[2].value.v = Payload(2)
    /\ _sended_request = <<>>

\* ---- C2 ------------------------------------------------------------------
\* C2: an Error whose id is the id of an outstanding sent request removes the entry from the
\* outstanding table and resolves its pending handle.
C2_ErrorRejectsPending ==
    [][\A m \in InErrors :
          HandleStep(m) /\ m.id \in DOMAIN _sended_request =>
              /\ m.id \notin DOMAIN _sended_request'
              /\ futures[_sended_request[m.id].future].loop = LoopThread =>
                    futures'[_sended_request[m.id].future].state # "pending"]_vars

\* ---- C3 ------------------------------------------------------------------
\* C3: connection_lost rejects every outstanding pending handle and empties the table.
C3_ConnectionLostRejectsAll ==
    [][op'.name = "connection_lost" =>
          /\ _sended_request' = <<>>
          /\ \A i \in DOMAIN _sended_request :
                futures[_sended_request[i].future].loop = LoopThread =>
                    futures'[_sended_request[i].future].state # "pending"]_vars

\* ---- C4 ------------------------------------------------------------------
C4_Ids ==
    /\ \A i \in DOMAIN _sended_request :
          _sended_request[i].future = i /\ i <= _sended_request_count
    /\ \A th \in Threads : frame[th].pc = "send" => frame[th].id = frame[th].fut
    /\ \A th, th2 \in Threads :
          th # th2 /\ frame[th].pc = "send" /\ frame[th2].pc = "send" => frame[th].id # frame[th2].id

C4_InsertStep ==
    \A th \in Threads :
        frame[th].pc = "insert" /\ frame'[th].pc = "send" =>
            /\ frame'[th].id \notin DOMAIN _sended_request
            /\ \A i \in DOMAIN _sended_request : i < frame'[th].id
            /\ \A th2 \in Threads \ {th} : frame[th2].pc = "send" => frame[th2].id < frame'[th].id

\* C4: the k-th call of send_request takes id k: every id a call takes is greater than every id
\* taken before it, also when calls from several threads overlap, so the entry a call inserts
\* never replaces an outstanding entry and the entry under id i holds the handle of the call
\* that was given id i.
C4_IdsIncreaseNoOverwrite == []C4_Ids /\ [][C4_InsertStep]_vars

\* two threads that both hold an allocated id and have not yet written their Request
C4_Witness ==
    /\ \A th \in Threads : frame[th].pc = "send"
    /\ Cardinality({frame[th].id : th \in Threads}) = NThreads
    /\ \A th \in Threads : frame[th].id \in DOMAIN _sended_request

\* ---- C5 ------------------------------------------------------------------
Cancelable(task) == get_entry(task.method).cancelable

\* the entry of id exists and its request is running
Running(id) == id \in DOMAIN _received_request /\ Pending(_received_request[id].future)

C5_RequestStep ==
    \A id \in InIds :
        CancelRequestStep(id) /\ Running(id) /\ _received_request[id].cancelable =>
            LET t == _received_request[id].future IN
            /\ tasks'[t].must_cancel /\ tasks'[t].cancelling
            /\ tasks'[t].st = "pending"
            /\ UNCHANGED <<written, _received_request>>

C5_CancelledStep ==
    \A t \in DOMAIN tasks :
        DoneStep(t) /\ tasks[t].st = "cancelled" =>
            /\ written' = IF Connected
                          THEN Append(written, JsonRPCError(tasks[t].id, REQUEST_CANCELLED))
                          ELSE written
            /\ tasks[t].id \notin DOMAIN _received_request'

\* a task with a cancellation to deliver does not return or raise before the cancellation
\* has been thrown into its coroutine
C5_DeliveredFirst ==
    \A t \in DOMAIN tasks :
        tasks[t].must_cancel /\ t \in DOMAIN tasks' /\ tasks'[t].st # "pending" =>
            tasks'[t].st = "cancelled"

C6_NonCancelableNeverCancelled ==
    \A t \in DOMAIN tasks :
        tasks[t].kind = "request" /\ ~Cancelable(tasks[t]) =>
            ~tasks[t].cancelling /\ tasks[t].st # "cancelled"

\* ---- C7 ------------------------------------------------------------------
\* every request received with this id is terminal, or there was none
NoneRunning(id) ==
    \A t \in DOMAIN tasks : tasks[t].kind = "request" /\ tasks[t].id = id => ~Pending(t)

\* C7: cancel_request(id) for an id none of whose requests is still running (all terminal, or
\* never received) writes nothing and leaves the received-request table, the handler tasks,
\* the sent-request table, the pending handles and the id counter as they were.
C7_CancelTerminalChangesNothing ==
    [][\A id \in InIds :
          CancelRequestStep(id) /\ NoneRunning(id) =>
              UNCHANGED <<written, _received_request, tasks, inq, _sended_request,
                          _sended_request_count, futures>>]_vars

\* cancel_request was just called for an id whose request has been answered, with a request of
\* the engine's own outstanding
C7_Witness ==
    /\ op.name = "cancel_request"
    /\ \A t \in DOMAIN tasks : tasks[t].id # op.id
    /\ \E k \in DOMAIN written : written[k] = JsonRPCResponse(op.id, "pong")
    /\ _sended_request # <<>>

C8_Expected(task) ==
    IF task.st = "result" THEN JsonRPCResponse(task.id, "pong")
    ELSE IF task.st = "cancelled" THEN JsonRPCError(task.id, REQUEST_CANCELLED)
    ELSE IF task.st = "rpc_error" THEN JsonRPCError(task.id, AppError)
    ELSE JsonRPCError(task.id, INTERNAL_ERROR)

C8_DoneStep ==
    \A t \in DOMAIN tasks :
        DoneStep(t) /\ tasks[t].cancelling =>
            /\ written' = IF Connected THEN Append(written, C8_Expected(tasks[t])) ELSE written
            /\ tasks[t].id \notin DOMAIN _received_request'

C8_EntryWaits ==
    \A id \in DOMAIN _received_request :
        Running(id) /\ tasks[_received_request[id].future].cancelling
          /\ ~(op'.name = "done" /\ op'.id = id) /\ ~(op'.name = "handle_request" /\ op'.id = id) =>
            id \in DOMAIN _received_request' /\ _received_request'[id] = _received_request[id]

C9_UnknownMethodOnlyError ==
    [][\A m \in InRequests :
          HandleStep(m) /\ m.method \notin DOMAIN methods =>
              /\ written' = IF Connected
                            THEN Append(written, JsonRPCError(m.id, METHOD_NOT_FOUND))
                            ELSE written
              /\ UNCHANGED <<tasks, _received_request>>]_vars

\* Error(-32601) for one id and the Response to a well-formed request with another id
C9_Witness ==
    \E j, k \in DOMAIN written :
        /\ written[j].kind = "error" /\ written[j].code = METHOD_NOT_FOUND
        /\ written[k] = JsonRPCResponse(written[k].id, "pong")
        /\ written[j].id # written[k].id
        /\ Len(written) = 2
        /\ tasks = <<>>

\* ---- C10 -----------------------------------------------------------------
\* C10: a Request for a registered method whose params do not convert is answered with
\* Error(-32602) carrying its id.
C10_InvalidParamsError ==
    [][\A m \in InRequests :
          /\ HandleStep(m) /\ Connected
          /\ m.method \in DOMAIN methods
          /\ convert_params_fails(methods[m.method].param_type, m.params)
          => written' = Append(written, JsonRPCError(m.id, INVALID_PARAMS))]_vars

\* ---- C11 -----------------------------------------------------------------
C11_Code(st) == IF st = "rpc_error" THEN AppError ELSE INTERNAL_ERROR

\* the handler raising writes nothing and touches neither the table nor the other messages
C11_RaiseStep ==
    \A t \in DOMAIN tasks :
        op'.name = "handler_raises" /\ Pending(t) /\ tasks[t].kind = "request"
          /\ t \in DOMAIN tasks' /\ ~Pending(t)' =>
            /\ tasks'[t].st \in {"rpc_error", "exception"}
            /\ \A u \in DOMAIN tasks \ {t} : u \in DOMAIN tasks' /\ tasks'[u] = tasks[u]
            /\ UNCHANGED <<written, _received_request, inq, connVars>>

C11_DoneStep ==
    \A t \in DOMAIN tasks :
        DoneStep(t) /\ tasks[t].st \in {"rpc_error", "exception"} =>
            /\ written' = IF Connected
                          THEN Append(written, JsonRPCError(tasks[t].id, C11_Code(tasks[t].st)))
                          ELSE written
            /\ tasks[t].id \notin DOMAIN _received_request'
            /\ \A u \in DOMAIN tasks \ {t} : u \in DOMAIN tasks' /\ tasks'[u] = tasks[u]
            /\ UNCHANGED <<inq, connVars>>

\* C11: a request handler that raises changes nothing but the state of its own task; the done
\* callback of that task then writes exactly one frame (while the connection is up), the Error
\* with the request's id and the code of the JsonRPCErrorException raised, or -32603 for any
\* other exception, and removes the entry of that id; the connection, the other handler tasks
\* and the messages waiting to be handled are left as they were.
C11_HandlerExceptionBecomesError == [][C11_RaiseStep /\ C11_DoneStep]_vars

\* two requests whose handlers raised, one a JsonRPCErrorException and one another exception:
\* each got its own Error and the table is empty
C11_Witness ==
    /\ op.name = "done" /\ op.arg = "exception"
    /\ Len(written) = 2
    /\ written[1].kind = "error" /\ written[1].code = AppError
    /\ written[2] = JsonRPCError(op.id, INTERNAL_ERROR)
    /\ written[1].id # written[2].id
    /\ _received_request = <<>>

\* ---- C12 -----------------------------------------------------------------
\* every entry refers to a live task of a request with the entry's id
C12_EntriesLive ==
    \A id \in DOMAIN _received_request :
        LET t == _received_request[id].future IN
        /\ t \in DOMAIN tasks
        /\ tasks[t].kind = "request"
        /\ tasks[t].id = id

C12_EmptyAtRest ==
    (\A t \in DOMAIN tasks : tasks[t].kind # "request") => _received_request = <<>>

C12_DoneStep ==
    \A t \in DOMAIN tasks : DoneStep(t) => tasks[t].id \notin DOMAIN _received_request'

\* C12: every entry of _received_request refers to the task of a request with that id whose
\* completion callback has not run yet; the completion callback of a task that has ended
\* (returned, raised or cancelled) removes the entry of its id, so when no dispatched request
\* is left the table is empty.
C12_ReceivedTableLeakFree == [](C12_EntriesLive /\ C12_EmptyAtRest) /\ [][C12_DoneStep]_vars

\* two requests were received, one answered with a Response and one ended cancelled: no task
\* and no entry is left
C12_Witness ==
    /\ op.name = "done"
    /\ nin = 2 /\ inq = <<>>
    /\ Len(written) = 2
    /\ written[1] = JsonRPCResponse(written[1].id, "pong")
    /\ written[2] = JsonRPCError(written[2].id, REQUEST_CANCELLED)
    /\ tasks = <<>>
    /\ _received_request = <<>>

\* ---- C13 -----------------------------------------------------------------
\* the task of a notification's handler ends (it returns, raises or is cancelled)
C13_TaskEnds ==
    \E t \in DOMAIN tasks : tasks[t].kind = "notification" /\ Pending(t) /\ t \notin DOMAIN tasks'
                               /\ op'.name \in {"handler_returns", "handler_raises", "notification_cancelled"}

\* C13: neither the step in which handle_message starts on a Notification (unknown method,
\* params that do not convert, or a handler started) nor the end of a notification's handler
\* (return, exception, cancellation) writes a frame or changes the received-request table.
C13_NotificationNeverAnswered ==
    [][(\E m \in InNotifications : HandleStep(m)) \/ C13_TaskEnds =>
          UNCHANGED <<written, _received_request>>]_vars

\* two notifications were handled on an open connection, the handler of the last one raised,
\* and nothing has been written
C13_Witness ==
    /\ op.name = "handler_raises" /\ op.id = NoId
    /\ Connected
    /\ nin = 2 /\ inq = <<>> /\ tasks = <<>>
    /\ written = <<>>
    /\ _received_request = <<>>

\* ---- C14 -----------------------------------------------------------------
\* whatever handlers are running, the loop can take the next step of any other message
C14_NothingWaits ==
    LoopFree =>
        /\ inq # <<>> /\ Head(inq).kind = "request" => ENABLED handle_message_request
        /\ inq # <<>> /\ Head(inq).kind = "response" /\ LockFree(LoopThread) =>
              ENABLED handle_message_response
        /\ \A t \in DOMAIN tasks :
              /\ Pending(t) /\ ~tasks[t].must_cancel => ENABLED handler_returns(t)
              /\ ~Pending(t) => ENABLED request_done(t)

C14_RequestStep ==
    \A m \in DuplexMessages :
        HandleStep(m) /\ m.kind = "request" =>
            /\ \E t \in DOMAIN tasks' \ DOMAIN tasks : tasks'[t] = Task("request", m.id, m.method)
            /\ \A u \in DOMAIN tasks : u \in DOMAIN tasks' /\ tasks'[u] = tasks[u]

C14_ResponseStep ==
    \A m \in DuplexMessages :
        HandleStep(m) /\ m.kind = "response" /\ m.id \in DOMAIN _sended_request =>
            /\ futures[_sended_request[m.id].future].state = "pending" =>
                  futures'[_sended_request[m.id].future].state = "result"
            /\ UNCHANGED tasks

C14_DoneStep ==
    \A t \in DOMAIN tasks :
        DoneStep(t) /\ tasks[t].st = "result" =>
            /\ written' = IF Connected
                          THEN Append(written, JsonRPCResponse(tasks[t].id, "pong")) ELSE written
            /\ \A u \in DOMAIN tasks \ {t} : u \in DOMAIN tasks' /\ tasks'[u] = tasks[u]

\* C14: while the handler of a request A is running, however long, the loop is free to start
\* the handler of a request B received later, to let it return and to run its completion
\* callback, and to handle a Response to a request of the engine's own; starting B creates B's
\* task next to A's, B's completion writes B's Response (while the connection is up), the
\* Response of the peer resolves its pending handle, and none of these steps touches A's task.
C14_NoHeadOfLineBlocking ==
    []C14_NothingWaits /\ [][C14_RequestStep /\ C14_ResponseStep /\ C14_DoneStep]_vars

\* request 1 was received before request 2 and is still running; the Response to request 2
\* has just been written
C14_Witness ==
    /\ op.name = "done" /\ op.id = 2 /\ op.arg = "result"
    /\ nin = 2
    /\ DOMAIN tasks = {1} /\ Pending(1) /\ tasks[1].id = 1
    /\ written # <<>> /\ Last(written) = JsonRPCResponse(2, "pong")

\* ---- C15 -----------------------------------------------------------------
\* the bytes data_received has been called with so far
Arrived == Len(Concat([k \in 1..delivered |-> [bytes |-> chunks[k]]]))

AllDelivered == delivered = Len(chunks)

Emitted(f) == [body |-> f.body, charset |-> f.charset]

\* C15: for one validly framed message cut at any byte offsets into the chunks passed to
\* data_received, _handle_body has not been called while a byte of the message is missing, and
\* once the last byte has arrived it has been called exactly once, with the body of the message
\* and the charset its header declares (utf-8 if none), and the buffer is empty.
C15_ChunkBoundaryInvariance ==
    Len(frames) = 1 /\ frames[1].valid =>
        IF Arrived < Len(frames[1].bytes)
        THEN bodies = <<>>
        ELSE bodies = <<Emitted(frames[1])>> /\ _message_buf = <<>>

\* a message with a declared charset and a body of several bytes has been delivered in chunks
\* cut inside its body, and its body was handed on once
C15_Witness ==
    /\ Len(frames) = 1 /\ frames[1].valid
    /\ frames[1].charset # CHARSET /\ Len(frames[1].body) > 1
    /\ AllDelivered
    /\ Len(chunks[MaxChunks]) \in 1..(Len(frames[1].body) - 1)
    /\ bodies = <<Emitted(frames[1])>>

\* ---- C16 -----------------------------------------------------------------
\* C16: once a stream of validly framed messages has been delivered, under any chunking, the
\* bodies handed to _handle_body are the bodies of the frames, one per frame, in stream order.
C16_OneBodyPerFrameInOrder ==
    (\A i \in DOMAIN frames : frames[i].valid) /\ AllDelivered =>
        bodies = [i \in DOMAIN frames |-> Emitted(frames[i])]

\* ---- C17 -----------------------------------------------------------------
\* C17: input with a missing or malformed Content-Length is consumed and handed to the decode
\* stage, so that once a well-formed frame sent after it has been delivered as well, that frame
\* has been emitted and the buffer holds no byte of either.
C17_MalformedLengthDoesNotStall ==
    Len(frames) = 2 /\ ~frames[1].valid /\ frames[2].valid /\ AllDelivered =>
        /\ \E k \in DOMAIN bodies : bodies[k] = Emitted(frames[2])
        /\ _message_buf = <<>>

\* ---- C18 -----------------------------------------------------------------
\* the step in which _handle_body is called with this body
HandleBodyStep(body) == op'.name = "_handle_body" /\ op'.arg = body

HasWrongVersion(d) == "jsonrpc" \in DOMAIN d /\ d.jsonrpc # "2.0"

\* C18: when a body holds a message whose jsonrpc field is not "2.0", _handle_body creates no
\* handle_message task for that message (nor for the messages after it in the same array):
\* the step starts no handler, adds no entry to the received-request table, and leaves the
\* sent-request table and the pending handles as they were.
C18_WrongVersionNotDispatched ==
    [][\A body \in DuplexBodies : \A i \in DOMAIN body.items :
          HandleBodyStep(body) /\ HasWrongVersion(body.items[i]) =>
              /\ Len(inq') < Len(inq) + i
              /\ \A k \in 1..Len(inq') : k > Len(inq) => ~HasWrongVersion(body.items[k - Len(inq)])
              /\ UNCHANGED <<tasks, _received_request, _sended_request, futures, scheduled>>]_vars

\* a Response with version "1.0" arrived for the id of an outstanding request: nothing is
\* waiting to be handled, the request is still outstanding and its handle pending
C18_Witness ==
    /\ op.name = "_handle_body"
    /\ op.arg = JsonBody("object", <<WrongVersion(JsonRPCResponse(1, Payload(1)))>>)
    /\ inq = <<>>
    /\ 1 \in DOMAIN _sended_request
    /\ futures[_sended_request[1].future].state = "pending"
    /\ written # <<>> /\ Last(written) = JsonRPCError(NoId, PARSE_ERROR)

\* ---- C19 -----------------------------------------------------------------
C19_RejectStep ==
    \A body \in DuplexBodies :
        HandleBodyStep(body) /\ Rejected(body) =>
            /\ UNCHANGED <<connVars, _message_buf, _sended_request, _received_request, tasks, futures>>
            /\ written' = IF Connected THEN Append(written, JsonRPCError(NoId, PARSE_ERROR)) ELSE written

C19_AcceptStep ==
    \A body \in DuplexBodies :
        HandleBodyStep(body) /\ ~Rejected(body) =>
            /\ inq' = inq \o [i \in DOMAIN body.items |-> from_dict_message(Without(body.items[i], "jsonrpc"))]
            /\ UNCHANGED <<connVars, _message_buf, written>>

\* C19: a body that is no JSON, or holds a message without jsonrpc field or with another
\* version, is rejected inside _handle_body: the step leaves the connection, the framer buffer,
\* both request tables, the handler tasks and the pending handles as they were and reports a
\* parse error to the peer; a well-formed body, whatever was rejected before it, has all its
\* messages dispatched.
C19_ProtocolErrorRejectsOneFrame == [][C19_RejectStep /\ C19_AcceptStep]_vars

\* a body was rejected and the request that arrived after it has been answered
C19_Witness ==
    /\ Len(written) = 2
    /\ written[1] = JsonRPCError(NoId, PARSE_ERROR)
    /\ written[2] = JsonRPCResponse(written[2].id, "pong")
    /\ nin = 2
    /\ Connected

\* ---- C20 -----------------------------------------------------------------
\* C20: decoding the body that send_message produces for a message of any kind yields a
\* message of the same kind with equal id, method, params, result and error code; this includes
\* a Response whose result is null and a Request or Notification without params.
C20_RoundTrip == decoded # NoMessage => decoded = outgoing

\* a Response with a null result has gone through encoding and decoding
C20_Witness ==
    /\ outgoing.kind = "response" /\ outgoing.result = "null"
    /\ wire = [jsonrpc |-> "2.0", id |-> outgoing.id, result |-> "null"]
    /\ decoded = outgoing

\* ---- C21 -----------------------------------------------------------------
\* the text `{"jsonrpc":"2.0","id":<i>,"result":"<v>"}`
C21_Text(i, v) ==
    <<"{", "\"", "j", "s", "o", "n", "r", "p", "c", "\"", ":", "\"", "2", ".", "0", "\"", ",",
      "\"", "i", "d", "\"", ":">> \o Decimal(i)
      \o <<",", "\"", "r", "e", "s", "u", "l", "t", "\"", ":", "\"">> \o Spell(v) \o <<"\"", "}">>

C21_Bytes(text) == Len(text) + Cardinality({k \in DOMAIN text : text[k] = "U+00E9"})

C21_DoneStep ==
    \A t \in DOMAIN tasks :
        DoneStep(t) /\ tasks[t].st = "result" /\ Connected =>
            LET f == msg(JsonRPCResponse(tasks[t].id, tasks[t].result)) IN
            /\ written' = Append(written, JsonRPCResponse(tasks[t].id, tasks[t].result))
            /\ f.body = encode(C21_Text(tasks[t].id, tasks[t].result))
            /\ f.header.content_length = C21_Bytes(C21_Text(tasks[t].id, tasks[t].result))

C21_ReturnStep ==
    \A t \in DOMAIN tasks :
        op'.name = "handler_returns" /\ Pending(t) /\ tasks[t].kind = "request" /\ ~Pending(t)' =>
            /\ tasks'[t].result \in HandlerResults
            /\ UNCHANGED <<written, _received_request>>

\* C21: on an open connection the completion callback of a request whose handler returned v
\* hands exactly one frame to the transport, the Response with the request's id and result v;
\* its body is the text {"jsonrpc":"2.0","id":i,"result":v} encoded as UTF-8 and its header
\* declares as Content-Length the number of bytes of that body; starting the handler and the
\* handler's return write nothing.
C21_ReplyIsOneFramedResponse ==
    [][C21_DoneStep /\ C21_ReturnStep
       /\ (\A m \in InRequests : HandleStep(m) /\ op'.arg = "started" => UNCHANGED written)]_vars

\* request 1 for ping was answered with "pong" and nothing else was written
C21_Witness ==
    /\ op.name = "done" /\ op.id = 1 /\ op.task.method = "ping"
    /\ written = <<JsonRPCResponse(1, "pong")>>
    /\ msg(written[1]).header.content_length = 40
    /\ tasks = <<>>

\* ---- C22 -----------------------------------------------------------------
C22_Frame(k) == HeaderBytes(k) \o BodyBytes(k)

\* the calls whose bytes are in a sequence of bytes, in order of their first byte
RECURSIVE C22_Calls(_)
C22_Calls(bytes) ==
    IF bytes = <<>> THEN <<>>
    ELSE LET k == bytes[1].call
             rest == C22_Calls(Tail(bytes))
         IN IF rest # <<>> /\ rest[1] = k THEN rest ELSE <<k>> \o rest

C22_WholeFrames ==
    /\ transport = Concat([i \in DOMAIN C22_Calls(transport) |-> [bytes |-> C22_Frame(C22_Calls(transport)[i])]])
    /\ \A i \in DOMAIN ready : \E k \in 1..ncalls : ready[i] = C22_Frame(k)
    /\ \A k \in 1..ncalls :
          Cardinality({i \in DOMAIN ready : ready[i][1].call = k})
            + Cardinality({i \in DOMAIN transport : transport[i] = HeaderBytes(k)[1]}) <= 1

C22_Steps ==
    /\ transport' # transport =>
          /\ op'.name = "write"
          /\ ready # <<>> /\ ready' = Tail(ready)
          /\ transport' = transport \o Head(ready)
    /\ ready' # ready /\ transport' = transport =>
          \E th \in Threads : sm[th].pc = "call" /\ ready' = Append(ready, C22_Frame(sm[th].call))

\* C22: every call of send_message schedules at most one write, whose argument is the header
\* of that call followed by the body of that call; bytes reach the transport only when the
\* loop runs the oldest scheduled write, which appends its whole argument; so the bytes on the
\* transport are always a sequence of complete frames, each call's at most once, whichever
\* threads the calls were made on and however they overlapped.
C22_WritesAreWholeFramesInQueueOrder == []C22_WholeFrames /\ [][C22_Steps]_vars

\* two overlapping calls: the one that began second got its frame written first, and both frames
\* are on the transport whole
C22_Witness ==
    /\ transport = C22_Frame(2) \o C22_Frame(1)
    /\ ready = <<>>

\* ---- C23 -----------------------------------------------------------------
\* C23: handling a Response whose id is null or is not the id of an outstanding sent request
\* (never used, or already answered) writes nothing to the peer and leaves the outstanding
\* table and the pending handles as they were.
C23_UnmatchedResponseReportedLocally ==
    [][\A m \in InResponses :
          HandleStep(m) /\ (m.id = NoId \/ m.id \notin DOMAIN _sended_request) =>
              UNCHANGED <<written, _sended_request, futures, scheduled>>]_vars

\* ---- C24 -----------------------------------------------------------------
\* the handle of the entry a Response is for is pending and owned by another loop
C24_Foreign(m) ==
    /\ m.id \in DOMAIN _sended_request
    /\ futures[_sended_request[m.id].future].loop # LoopThread
    /\ futures[_sended_request[m.id].future].state = "pending"

C24_ResponseStep ==
    \A m \in InResponses :
        HandleStep(m) /\ C24_Foreign(m) =>
            LET h == _sended_request[m.id].future
                fails == m.result = "bad"
            IN
            /\ \A g \in DOMAIN futures : futures'[g].state = futures[g].state
            /\ IF fails
               THEN scheduled' = Append(scheduled, [fut |-> h, state |-> "exception",
                                                    value |-> Value("TypeError", m.result)])
               ELSE IF running[futures[h].loop]
               THEN scheduled' = Append(scheduled, [fut |-> h, state |-> "result",
                                                    value |-> C1_Expected(m.result)])
               ELSE UNCHANGED scheduled

C24_OwnerStep ==
    \A h \in DOMAIN futures :
        futures[h].loop # LoopThread /\ futures'[h].state # futures[h].state =>
            \/ op'.name = "cancel_handle" /\ op'.id = h
            \/ /\ op'.name = "foreign_callback" /\ op'.id = h
               /\ running[futures[h].loop]
               /\ \E k \in DOMAIN scheduled :
                     /\ scheduled[k].fut = h
                     /\ futures'[h].state = scheduled[k].state
                     /\ futures'[h].value = scheduled[k].value
                     /\ Len(scheduled') = Len(scheduled) - 1

\* C24: handling a Response for a pending handle that another loop owns leaves the handle as it
\* is and hands a callback to the owning loop (with the converted result if that loop is
\* running, with the exception if the conversion failed); a handle owned by another loop
\* changes only when its owner cancels it or when its own running loop runs such a callback,
\* which sets the result or exception the callback carries.
C24_ForeignHandleSetOnlyByOwnerLoop == [][C24_ResponseStep /\ C24_OwnerStep]_vars

\* the result of a Response did not convert, and the owning loop of the handle, not the
\* protocol's loop, has just set the exception
C24_Witness ==
    /\ op.name = "foreign_callback" /\ op.arg = "exception"
    /\ futures[op.id].loop # LoopThread
    /\ futures[op.id].state = "exception"
    /\ op.id \notin DOMAIN _sended_request

\* ---- C25 -----------------------------------------------------------------
\* what a name resolves to in a table (None if it has no entry)
C25_Get(table, name) == IF name \in DOMAIN table THEN table[name] ELSE NoEntry

C25_AddStep ==
    op'.name = "add_method" =>
        /\ methods'[op'.arg.name] = op'.arg
        /\ \E table \in Tables :
              \A n \in Names \ {op'.arg.name} : C25_Get(methods', n) = C25_Get(table, n)

C25_RemoveStep ==
    op'.name = "remove_method" =>
        /\ op'.arg \notin DOMAIN methods'
        /\ ~returned'.raised
        /\ \E table \in Tables :
              /\ returned'.value = C25_Get(table, op'.arg)
              /\ \A n \in Names \ {op'.arg} : C25_Get(methods', n) = C25_Get(table, n)

C25_LookupStep ==
    op'.name \in {"get_entry", "get_method", "get_param_type"} =>
        /\ ~returned'.raised
        /\ LET e == C25_Get(methods', op'.arg) IN
           returned'.value = CASE op'.name = "get_entry" -> e
                               [] op'.name = "get_method" -> IF e = NoEntry THEN Method(NoObject, None) ELSE e.method
                               [] op'.name = "get_param_type" -> IF e = NoEntry THEN None ELSE e.param_type
        /\ __initialized => methods' = methods

\* C25: the registry's table holds each entry under the entry's own name, so at most one per
\* name; add_method(name, ...) makes that entry the one stored under name, replacing any entry
\* the name had, and leaves what the other names resolve to; remove_method(name) leaves name
\* absent and returns what it had (None if nothing); get_entry, get_method and get_param_type
\* return the entry stored under the name, its method and its param type, and None for a name
\* that has no entry; none of these calls raises.
C25_LastWriteWinsLookupNeverRaises ==
    [](\A n \in DOMAIN methods : methods[n].name = n)
    /\ [][C25_AddStep /\ C25_RemoveStep /\ C25_LookupStep]_vars

\* a name that a live part declares was registered again with add_method: get_entry has just
\* returned the dynamically registered entry, and the other names still resolve
C25_Witness ==
    /\ op.name = "get_entry" /\ op.arg = "dup"
    /\ \E p \in __class_part_instances : "dup" \in DOMAIN Declared(p.class)
    /\ returned.value.method \in Functions
    /\ returned.value = methods["dup"]
    /\ "ping" \in DOMAIN methods

\* ---- C26
\* the names only obj declares among the endpoint and the parts attached to it, left alone by
\* add_method and remove_method
C26_Own(obj) ==
    {n \in DOMAIN Declared(obj.class) \ {"x", "dup"} :
        \A q \in (__class_part_instances \cup {Endpoint}) \ {obj} : n \notin DOMAIN Declared(q.class)}

\* C26: once the registry of the engine is resolved, every name that only one attached part
\* declares resolves to the method bound to that part, with the param type and the cancelable
\* flag declared for it, and every name that only the endpoint declares resolves to the
\* method bound to the endpoint: parts with distinct names are all there, beside the endpoint
C26_DistinctNamesAllResolved ==
    __initialized =>
        \A obj \in __class_part_instances \cup {Endpoint} : \A n \in C26_Own(obj) :
            /\ n \in DOMAIN methods
            /\ methods[n] = RpcMethodEntry(n, Method(obj, n), Declared(obj.class)[n][1],
                                           Declared(obj.class)[n][2])

\* two parts of different types are attached and a lookup of "b" returned the method of its part
C26_Witness ==
    /\ __initialized
    /\ \E pa, pb \in __class_part_instances :
          /\ pa.class = "A" /\ pb.class = "B"
          /\ Cardinality(__class_part_instances) = 2
          /\ methods["a"].method = Method(pa, "a")
          /\ returned = Returned("get_entry", RpcMethodEntry("b", Method(pb, "b"), None, TRUE))
    /\ methods["ping"].method = Method(Endpoint, "ping")
    /\ op.name = "get_entry" /\ op.arg = "b"

\* ---- C27
\* the attached parts that declare the name
C27_Declaring(name) == {p \in __class_part_instances' : name \in DOMAIN Declared(p.class)}

\* C27: when the parts attached to the engine declare the same name, the lookup that resolves
\* the registry returns one entry for it without raising, the method of the part attached
\* last, whatever the order in which the set of parts is iterated
C27_LaterPartWins ==
    [][(~__initialized /\ op'.name = "get_entry" /\ op'.arg = "dup" /\ C27_Declaring("dup") # {}) =>
          /\ ~returned'.raised
          /\ returned'.value = methods'["dup"]
          /\ returned'.value.method.self =
                CHOOSE p \in C27_Declaring("dup") : \A q \in C27_Declaring("dup") : q.serial <= p.serial]_vars

\* ---- C28
\* the names declared by the objects of a set
C28_Names(objs) == UNION {DOMAIN Declared(o.class) : o \in objs}

\* the part types declared on the endpoint class, as classes
C28_Types(class_parts) == {Object("class", class_parts[i][2], 0) : i \in DOMAIN class_parts}

\* a part type or a part being added leaves the registry it is added to unresolved
C28_Invalidates ==
    /\ op'.name = "add_class_part_instance" => ~__initialized' /\ methods' = <<>>
    /\ op'.name = "add_class_part" =>
          ~_class_registries'["Server"].initialized /\ _class_registries'["Server"].methods = <<>>

\* the first lookup through the engine after a change resolves a table with the methods of
\* the endpoint, of the declared part types and of the attached parts
C28_Rebuilds ==
    (~__initialized /\ op'.name \in {"get_entry", "get_method", "get_param_type"}) =>
        /\ __initialized'
        /\ C28_Names({Endpoint} \cup C28_Types(ClassParts) \cup __class_part_instances') \subseteq DOMAIN methods'

\* the first lookup through the endpoint class after a change resolves a table with the
\* methods of the endpoint and of the declared part types
C28_ClassRebuilds ==
    ("Server" \in DOMAIN _class_registries /\ ~_class_registries["Server"].initialized
        /\ op'.name = "class_get_entry") =>
        /\ _class_registries'["Server"].initialized
        /\ C28_Names({EndpointClass} \cup C28_Types(_class_registries["Server"].class_parts))
              \subseteq DOMAIN _class_registries'["Server"].methods

\* a lookup of a resolved registry leaves its table and its parts as they are
C28_Reuses ==
    /\ (__initialized /\ op'.name \in {"get_entry", "get_method", "get_param_type"}) =>
          UNCHANGED <<methods, __initialized, __class_part_instances, __rpc_part_instances__, created>>
    /\ ("Server" \in DOMAIN _class_registries /\ _class_registries["Server"].initialized
          /\ op'.name = "class_get_entry") => UNCHANGED _class_registries

\* C28: the method table is resolved lazily and cached: adding a part type or a part
\* invalidates it, the first lookup after that resolves a table with the methods of the
\* endpoint, of every declared part type and of every attached part, and further lookups
\* reuse the table
C28_LazyCachedComplete ==
    [][C28_Invalidates /\ C28_Rebuilds /\ C28_ClassRebuilds /\ C28_Reuses]_vars

C29_AllStep ==
    op'.name = "cancel_all_received_request" =>
        /\ \A id \in DOMAIN _received_request :
              LET entry == _received_request[id] IN
              /\ entry.cancelable /\ Pending(entry.future) =>
                    /\ tasks'[entry.future].must_cancel /\ tasks'[entry.future].cancelling
                    /\ tasks'[entry.future].st = "pending"
              /\ ~entry.cancelable => tasks'[entry.future] = tasks[entry.future]
        /\ UNCHANGED <<written, _received_request>>

\* the done callback of a task that ended cancelled writes Error(-32800) and drops the entry
C29_CancelledStep ==
    \A t \in DOMAIN tasks :
        DoneStep(t) /\ tasks[t].cancelling /\ tasks[t].st = "cancelled" =>
            /\ written' = IF Connected
                          THEN Append(written, JsonRPCError(tasks[t].id, REQUEST_CANCELLED))
                          ELSE written
            /\ tasks[t].id \notin DOMAIN _received_request'

\* the cancellation is what the handler sees next, and no task of a method that is not
\* cancelable is asked to cancel
C29_Tasks ==
    \A t \in DOMAIN tasks' :
        /\ t \in DOMAIN tasks /\ tasks[t].must_cancel /\ tasks'[t].st # "pending" =>
              tasks'[t].st = "cancelled"
        /\ tasks'[t].kind = "request" /\ ~Cancelable(tasks'[t]) =>
              ~tasks'[t].cancelling /\ tasks'[t].st # "cancelled"

C30_InsertStep ==
    op'.name = "send_request_insert" =>
        /\ op'.id = _sended_request_count
        /\ op'.id \notin DOMAIN _sended_request
        /\ DOMAIN _sended_request' = DOMAIN _sended_request \cup {op'.id}
        /\ \A id \in DOMAIN _sended_request : _sended_request'[id] = _sended_request[id]

\* send_request hands one Request with that id, method and params to the writer
C30_SendStep ==
    op'.name = "send_request" => written' = Append(written, JsonRPCRequest(op'.id, "call", "p"))

\* C30: every send_request allocates the next id, adds one entry under it and writes one
\* Request frame with that id, method and params, whether the connection is up or not
C30_EveryRequestWritten == [][C30_InsertStep /\ C30_SendStep]_vars

\* ---- C31
\* C31: send_notification hands one Notification, a message without id, to the writer (while
\* the connection is up; nothing otherwise) and changes nothing else: the sent-request table,
\* the id counter, the pending handles and the received-request table stay as they were
C31_NotificationIsNotTracked ==
    [][op'.name = "send_notification" =>
          /\ written' = IF Connected THEN Append(written, Msg("notification", NoId, "event", "p", "-", 0))
                        ELSE written
          /\ UNCHANGED <<_sended_request, _sended_request_count, futures, scheduled,
                         _received_request, tasks, inq>>]_vars

\* a notification has just been written while a request of the engine is outstanding
C31_Witness ==
    /\ op.name = "send_notification"
    /\ written # <<>> /\ Last(written).kind = "notification" /\ Last(written).id = NoId
    /\ DOMAIN _sended_request = {1} /\ _sended_request_count = 1
    /\ Len(futures) = 1 /\ futures[1].state = "pending"

\* ---- C32
\* w is v with one reply for id appended: a Response or an Error with that id
C32_OneReply(v, w, id) ==
    /\ Len(w) = Len(v) + 1
    /\ \A k \in DOMAIN v : w[k] = v[k]
    /\ Last(w).kind \in {"response", "error"} /\ Last(w).id = id

\* a Request that is dispatched is answered at once or gets a handler task of its own
C32_HandleStep ==
    \A m \in InRequests :
        HandleStep(m) /\ Connected =>
            \/ C32_OneReply(written, written', m.id) /\ tasks' = tasks
            \/ /\ written' = written
               /\ \E t \in DOMAIN tasks' \ DOMAIN tasks :
                     tasks'[t].kind = "request" /\ tasks'[t].id = m.id /\ Pending(t)'

\* the done callback of a handler task writes the one reply of its request
C32_DoneStep ==
    \A t \in DOMAIN tasks : DoneStep(t) /\ Connected => C32_OneReply(written, written', tasks[t].id)

\* nothing else writes, and a handler task leaves only through its done callback
C32_OtherStep ==
    op'.name \notin {"handle_request", "done"} =>
        /\ written' = written
        /\ \A t \in DOMAIN tasks : tasks[t].kind = "request" => t \in DOMAIN tasks'

\* C32: every Request that is dispatched gets exactly one reply with its id, a Response or an
\* Error, whether its handler returns, raises or is cancelled and also when its params
\* cannot be converted (while the connection is up)
C32_ExactlyOneReply == [][C32_HandleStep /\ C32_DoneStep /\ C32_OtherStep]_vars

\* ---- C33
\* the Response m answers an outstanding request whose handle is still pending
C33_Pending(m) ==
    /\ m.id \in DOMAIN _sended_request
    /\ futures[_sended_request[m.id].future].state = "pending"

\* the outcome handle_response gives the handle: set at once when the protocol's loop owns
\* it, handed to the owning loop otherwise
C33_Outcome(h, state, value) ==
    IF futures[h].loop = LoopThread
    THEN futures'[h].state = state /\ futures'[h].value = value /\ scheduled' = scheduled
    ELSE /\ futures'[h] = futures[h]
         /\ scheduled' = Append(scheduled, [fut |-> h, state |-> state, value |-> value])

C33_ResponseStep ==
    \A m \in InResponses :
        HandleStep(m) /\ C33_Pending(m) =>
            LET entry == _sended_request[m.id] IN
            /\ m.id \notin DOMAIN _sended_request'
            /\ m.result = "bad" /\ entry.result_type # None =>
                  C33_Outcome(entry.future, "exception", Value("TypeError", "bad"))
            /\ m.result = "null" /\ (futures[entry.future].loop = LoopThread \/ running[futures[entry.future].loop]) =>
                  C33_Outcome(entry.future, "result", Value(None, "null"))

\* the callback handed to the owning loop sets what it was given on a handle still pending
C33_CallbackStep ==
    \A k \in DOMAIN scheduled :
        LET h == scheduled[k].fut IN
        (op'.name = "foreign_callback" /\ op'.id = h /\ futures[h].state = "pending"
            /\ \A j \in DOMAIN scheduled : scheduled[j].fut = h => j = k) =>
                futures'[h].state = scheduled[k].state /\ futures'[h].value = scheduled[k].value

\* C33: a Response whose result does not convert to the declared result type removes the
\* entry and rejects the pending handle with the exception of the conversion (at once on the
\* protocol's loop, through the callback handed to the loop that owns the handle otherwise);
\* a Response whose result is null resolves the handle with None, whatever type is declared
C33_ConversionFailureRejects == [][C33_ResponseStep /\ C33_CallbackStep]_vars

\* the handle of request 1 has been rejected with the exception of the conversion and the
\* table no longer holds its entry
C33_Witness ==
    /\ op.name = "handle_response" /\ op.id = 1 /\ op.arg = "bad"
    /\ futures[1].loop = LoopThread
    /\ futures[1].state = "exception" /\ futures[1].value = Value("TypeError", "bad")
    /\ 1 \notin DOMAIN _sended_request

\* ---- C34
\* a handle that is done keeps its outcome in every step
C34_Settled ==
    \A h \in DOMAIN futures :
        futures[h].state # "pending" =>
            futures'[h].state = futures[h].state /\ futures'[h].value = futures[h].value

\* a Response whose id has no entry any more, or whose handle is done, is handled to the end
\* without touching a handle or handing anything to another loop
C34_LateStep ==
    \A m \in InResponses :
        (HandleStep(m) /\ m.id # NoId
            /\ (m.id \in DOMAIN _sended_request => futures[_sended_request[m.id].future].state # "pending")) =>
                /\ op'.name = "handle_response"
                /\ m.id \notin DOMAIN _sended_request'
                /\ \A h \in DOMAIN futures : futures'[h].state = futures[h].state
                /\ scheduled' = scheduled

\* C34: a handle returned by send_request is resolved at most once: once it is done (resolved,
\* rejected or cancelled by its awaiter) no step changes its outcome, and a duplicate or late
\* Response with its id is handled to the end without changing any handle
C34_ResolvedAtMostOnce ==
    [][C34_Settled /\ C34_LateStep]_<<op, [h \in DOMAIN futures |-> futures[h].state]>>

\* a second Response for id 1, with another result, has been handled after the first one
\* resolved the handle
C34_Witness ==
    /\ op.name = "handle_response" /\ op.id = 1 /\ op.arg = "unknown_id"
    /\ Len(futures) >= 1
    /\ futures[1].state = "result" /\ futures[1].value = Value("T", Payload(1))
    /\ nin = 2

\* ---- C35
\* every handler that is still running has the entry of its id, and the entry refers to it
C35_Reachable ==
    \A t \in DOMAIN tasks :
        tasks[t].kind = "request" /\ Pending(t) =>
            /\ tasks[t].id \in DOMAIN _received_request
            /\ _received_request[tasks[t].id].future = t

\* the done callback of one request leaves the entries of the requests still running
C35_DoneStep ==
    \A t \in DOMAIN tasks :
        DoneStep(t) =>
            \A id \in DOMAIN _received_request :
                _received_request[id].future # t /\ Pending(_received_request[id].future) =>
                    id \in DOMAIN _received_request'

\* C35: every received request whose handler is still running has an entry in the
\* received-request table that refers to its own task, also when the peer reuses the id of a
\* request in flight, and the completion of one request never removes the entry of another
\* request that is still running
C35_RunningRequestsReachable == [][C35_Reachable' /\ C35_DoneStep]_vars

\* ---- C36
\* the messages of the elements of an array that are valid, in the order of the array
C36_Valid(items) ==
    LET Good(m) == ~IsRaise(m) IN SelectSeq([i \in DOMAIN items |-> inner(items[i])], Good)

\* C36: of a body that is an array every valid element gets a handle_message task of its own,
\* those before and those after an element with a missing or wrong jsonrpc version alike;
\* the invalid element alone is rejected
C36_BatchRejectsOnlyInvalid ==
    [][\A body \in DuplexBodies :
          HandleBodyStep(body) /\ body.json = "list" => inq' = inq \o C36_Valid(body.items)]_vars

\* ---- C37
\* the step is neither add_method nor remove_method for this name
C37_Kept(name) ==
    /\ ~(op'.name = "remove_method" /\ op'.arg = name)
    /\ ~(op'.name = "add_method" /\ op'.arg.name = name)

\* C37: an entry registered with add_method stays resolvable until remove_method is called
\* for its name: after any other step, attaching a further part included, every table the next
\* lookup can resolve holds the entry as it was registered
C37_AddedMethodStays ==
    [][\A name \in {"x", "dup"} :
          (__initialized /\ name \in DOMAIN methods /\ methods[name].method \in Functions
              /\ C37_Kept(name)) =>
                 LET e == methods[name] IN
                 \A table \in Tables' : name \in DOMAIN table /\ table[name] = e]_vars

\* ---- C38
\* the part types declared on the endpoint class
C38_Declared == {ClassParts[i][2] : i \in DOMAIN ClassParts}

\* declaring a part type or constructing a part by hand creates no part of a declared type
C38_Lazy ==
    op'.name \in {"add_class_part", "add_class_part_instance"} =>
        /\ __rpc_part_instances__' = __rpc_part_instances__
        /\ second'.rpc_part_instances = second.rpc_part_instances

\* after a lookup through an engine every declared part type has its part, attached to that
\* engine's registry, and its methods are in the table
C38_Composed(parts, instances, table) ==
    \A type \in C38_Declared :
        /\ type \in DOMAIN parts
        /\ parts[type].class = type
        /\ parts[type] \in instances
        /\ DOMAIN Declared(type) \subseteq DOMAIN table

C38_LookupStep ==
    /\ op'.name = "get_entry" =>
          C38_Composed(__rpc_part_instances__', __class_part_instances', methods')
    /\ op'.name = "other_get_entry" =>
          C38_Composed(second'.rpc_part_instances, second'.class_part_instances, second'.methods)

\* the part an engine has for a type stays the part it has, and a part is constructed only
\* for a type the engine had none for
C38_Once ==
    /\ \A type \in DOMAIN __rpc_part_instances__ :
          type \in DOMAIN __rpc_part_instances__' /\ __rpc_part_instances__'[type] = __rpc_part_instances__[type]
    /\ \A type \in DOMAIN second.rpc_part_instances :
          /\ type \in DOMAIN second'.rpc_part_instances
          /\ second'.rpc_part_instances[type] = second.rpc_part_instances[type]
    /\ op'.name \in {"get_entry", "other_get_entry"} =>
          created' - created =
              Cardinality(DOMAIN __rpc_part_instances__' \ DOMAIN __rpc_part_instances__)
              + Cardinality(DOMAIN second'.rpc_part_instances \ DOMAIN second.rpc_part_instances)

\* no part belongs to both engines
C38_NotShared ==
    /\ \A ta \in DOMAIN __rpc_part_instances__', tb \in DOMAIN second'.rpc_part_instances :
          __rpc_part_instances__'[ta] # second'.rpc_part_instances[tb]
    /\ __class_part_instances' \cap second'.class_part_instances = {}

\* C38: parts are composed lazily and per engine: declaring a part type creates nothing; the
\* first lookup through an engine's registry creates the part of every declared type for
\* that engine, attaches it and makes its methods resolvable; an engine never gets a second
\* part of a type through the descriptor, and no part belongs to two engines
C38_PartsLazyPerEngine == [][C38_Lazy /\ C38_LookupStep /\ C38_Once /\ C38_NotShared]_vars

\* both engines have resolved their registry: each has its own part of type A and of type B
C38_Witness ==
    /\ __initialized /\ second.initialized
    /\ C38_Declared = {"A", "B"}
    /\ DOMAIN __rpc_part_instances__ = {"A", "B"}
    /\ DOMAIN second.rpc_part_instances = {"A", "B"}
    /\ created = 4
    /\ op.name = "other_get_entry" /\ returned.value.method.self = second.rpc_part_instances["A"]

====
